---- MODULE Spec2Model ----
(***************************************************************************)
(* A model of pytestee: the rule selection and conflict validation of the  *)
(* configuration manager, the run of the `check` command, the assertion    *)
(* and pattern checkers and the comment-marker detector.                   *)
(*                                                                         *)
(* Strings that the program matches by prefix or by regular expression     *)
(* are sequences: a rule id or a select/ignore pattern is a sequence of    *)
(* characters, a comment is a sequence of lexical tokens.                  *)
(***************************************************************************)
EXTENDS Integers, Sequences, FiniteSets, TLC

VARIABLES
    pc,          \* position of the operation in progress
    command,     \* the CLI command being run ("check", "show-config") or "none"
    config,      \* ConfigManager._config: select, ignore, severity, overrides
    fileConfig,  \* the configuration file load_config finds (or NoFile)
    raised,      \* TRUE once RuleConflictError has been raised
    events,      \* the calls made by the command, in order
    pending,     \* test files execute has still to load
    analyzed,    \* per analyzed file: the rule ids enabled when it was analyzed
    arg,         \* argument(s) of the operation applied to bounded inputs
    ret          \* what that operation returned

vars == <<pc, command, config, fileConfig, raised, events, pending, analyzed,
          arg, ret>>

----------------------------------------------------------------------------
(* Bounds *)

MaxPatterns == 2
MaxFiles == 2
MaxAsserts == 4
MaxBodyLines == 2
MaxFunctionLines == 3
MaxLeaf == 2
MaxDirRules == 2
MaxFilePatterns == 2
MaxNameLen == 2
MaxFileLines == 4
MaxRunFiles == 3
MaxStatements == 2
MaxChecks == 8
MaxFlowStatements == 4
MaxLineLen == 4

----------------------------------------------------------------------------
(* Rule identifiers, as the character strings the program compares *)

Id(a, b, n) == <<"P", "T", a, b, "0", "0", n>>

PTCM001 == Id("C", "M", "1")
PTCM002 == Id("C", "M", "2")
PTCM003 == Id("C", "M", "3")
PTST001 == Id("S", "T", "1")
PTST002 == Id("S", "T", "2")
PTLG001 == Id("L", "G", "1")
PTAS001 == Id("A", "S", "1")
PTAS002 == Id("A", "S", "2")
PTAS003 == Id("A", "S", "3")
PTAS004 == Id("A", "S", "4")
PTAS005 == Id("A", "S", "5")
PTNM001 == Id("N", "M", "1")
PTNM002 == Id("N", "M", "2")
PTVL001 == Id("V", "L", "1")
PTVL002 == Id("V", "L", "2")
PTEC001 == Id("E", "C", "1")
PTEC002 == Id("E", "C", "2")
PTEC003 == Id("E", "C", "3")
PTEC004 == Id("E", "C", "4")
PTEC005 == Id("E", "C", "5")

\* rule_classes of CheckerRegistry.get_all_rule_instances
RegistryRules ==
    {PTCM001, PTCM002, PTCM003, PTST001, PTLG001,
     PTAS001, PTAS002, PTAS003, PTAS004, PTAS005, PTNM001}

\* all_rules of ConfigManager._expand_rule_patterns
ExpandAllRules == RegistryRules \cup {PTNM002}

\* all_rules of RuleValidator.get_compatible_rules
ValidatorAllRules ==
    {PTCM001, PTCM002, PTST001, PTLG001, PTST002,
     PTAS001, PTAS002, PTAS003, PTAS004, PTAS005}

\* RuleValidator.CONFLICTING_RULE_GROUPS
CONFLICTING_RULE_GROUPS ==
    << {PTAS001, PTAS005},
       {PTAS002, PTAS005},
       {PTAS004, PTAS001, PTAS002, PTAS005} >>

\* ConfigManager._default_config["select"]
DefaultSelect ==
    {PTCM003, PTST001, PTLG001, PTAS005, PTNM001, PTVL001, PTVL002,
     PTEC001, PTEC002, PTEC003, PTEC004, PTEC005}

\* default_patterns of ConfigManager._validate_rule_selection
DefaultPatterns == {PTCM003, PTST001, PTLG001, PTAS005, PTNM001}

----------------------------------------------------------------------------
(* ConfigManager: rule selection *)

Absent == "absent"

\* str.startswith
startswith(s, prefix) ==
    /\ Len(prefix) <= Len(s)
    /\ SubSeq(s, 1, Len(prefix)) = prefix

\* ConfigManager._matches_pattern
matches_pattern(rule_id, pattern) ==
    IF rule_id = pattern THEN TRUE ELSE startswith(rule_id, pattern)

\* ConfigManager._matches_patterns
matches_patterns(rule_id, patterns) ==
    \E pattern \in patterns : matches_pattern(rule_id, pattern)

is_rule_enabled_select_wins(cfg, rule_id) ==
    IF cfg.select # {}
    THEN matches_patterns(rule_id, cfg.select)
    ELSE ~(cfg.ignore # {} /\ matches_patterns(rule_id, cfg.ignore))

\* ConfigManager.is_rule_enabled
is_rule_enabled(cfg, rule_id) ==
    IF cfg.select # {} /\ ~matches_patterns(rule_id, cfg.select)
    THEN FALSE
    ELSE IF cfg.ignore # {} /\ matches_patterns(rule_id, cfg.ignore)
         THEN FALSE
         ELSE TRUE

\* ConfigManager._expand_rule_patterns
expand_rule_patterns(patterns) ==
    UNION { IF pattern \in ExpandAllRules
            THEN {pattern}
            ELSE {rule_id \in ExpandAllRules : startswith(rule_id, pattern)}
          : pattern \in patterns }

find_conflicts_more_than_two(selected_rules) ==
    SelectSeq([i \in 1..Len(CONFLICTING_RULE_GROUPS) |->
                   selected_rules \cap CONFLICTING_RULE_GROUPS[i]],
              LAMBDA intersection : Cardinality(intersection) > 2)

\* RuleValidator._find_conflicts
find_conflicts(selected_rules) ==
    SelectSeq([i \in 1..Len(CONFLICTING_RULE_GROUPS) |->
                   selected_rules \cap CONFLICTING_RULE_GROUPS[i]],
              LAMBDA intersection : Cardinality(intersection) > 1)

\* RuleValidator.validate_rule_selection: the conflicts it reports and
\* whether it raises RuleConflictError
validate_rule_selection(selected_rules) ==
    LET conflicts == find_conflicts(selected_rules)
    IN  [raises |-> conflicts # <<>>, conflicts |-> conflicts]

\* ConfigManager._validate_rule_selection
config_validate_rule_selection(cfg) ==
    LET selected_rules ==
            IF cfg.select = {}
            THEN expand_rule_patterns(DefaultPatterns)
            ELSE expand_rule_patterns(cfg.select)
        ignored_rules ==
            IF cfg.ignore # {} THEN expand_rule_patterns(cfg.ignore) ELSE {}
    IN  validate_rule_selection(selected_rules \ ignored_rules)

\* ConfigManager.__init__: _config = {}
EmptyConfig ==
    [select |-> {}, ignore |-> {}, severity |-> <<>>, overrides |-> {}]

\* ConfigManager._default_config
DefaultConfig ==
    [select |-> DefaultSelect, ignore |-> {}, severity |-> <<>>, overrides |-> {}]

\* no configuration file exists in any of the locations load_config tries
NoFile == [exists |-> FALSE, keys |-> {}, select |-> {}, ignore |-> {}]

\* ConfigManager._merge_config, for the top-level keys select and ignore
\* (lists: the loaded value replaces the base value)
merge_config(base, new_config) ==
    [base EXCEPT
        !.select = IF "select" \in new_config.keys
                   THEN new_config.select ELSE @,
        !.ignore = IF "ignore" \in new_config.keys
                   THEN new_config.ignore ELSE @]

\* ConfigManager.load_config: the defaults, merged with the first
\* configuration file found when it holds at least one key
load_config(file) ==
    IF file.exists /\ file.keys # {}
    THEN merge_config(DefaultConfig, file)
    ELSE DefaultConfig

----------------------------------------------------------------------------
(* Inputs: select / ignore patterns *)

Prefix(s, n) == SubSeq(s, 1, n)

\* rule ids, prefixes of rule ids (the empty string is a prefix of all),
\* and strings that match no rule
PatternPool ==
    {PTAS001, PTAS005, PTCM003,
     Prefix(PTAS001, 4), Prefix(PTAS001, 2), Prefix(PTAS001, 6), <<>>,
     Id("Z", "Z", "9"), PTAS001 \o <<"1">>}

PatternSets(pool) == {S \in SUBSET pool : Cardinality(S) <= MaxPatterns}

Idle ==
    /\ command = "none"
    /\ config = EmptyConfig
    /\ fileConfig = NoFile
    /\ raised = FALSE
    /\ events = <<>>
    /\ pending = <<>>
    /\ analyzed = <<>>

IdleUnchanged ==
    UNCHANGED <<command, config, fileConfig, raised, events, pending, analyzed>>

----------------------------------------------------------------------------
(* RuleValidator.validate_rule_selection on every set of registry rules *)

InitValidator ==
    /\ Idle
    /\ pc = "call"
    /\ arg \in SUBSET (RegistryRules \cup {PTST002})
    /\ ret = Absent

ValidateRuleSelection ==
    /\ pc = "call"
    /\ pc' = "returned"
    /\ ret' = validate_rule_selection(arg)
    /\ UNCHANGED arg
    /\ IdleUnchanged

NextValidator == ValidateRuleSelection

SpecValidator == InitValidator /\ [][NextValidator]_vars

\* C1: validate_rule_selection(S) raises RuleConflictError exactly when two
\* different rule ids of S lie together in one group of
\* CONFLICTING_RULE_GROUPS; the empty set, {PTCM001, PTCM002} and
\* {PTCM001, PTAS001, PTAS003} pass without raising.
C1_RaisesIffTwoOfAGroup ==
    pc = "returned" =>
        /\ ret.raises <=>
               \E a \in arg, b \in arg :
                   /\ a # b
                   /\ \E i \in 1..Len(CONFLICTING_RULE_GROUPS) :
                          {a, b} \subseteq CONFLICTING_RULE_GROUPS[i]
        /\ arg \in {{}, {PTCM001, PTCM002}, {PTCM001, PTAS001, PTAS003}}
               => ~ret.raises

C1_Witness ==
    /\ pc = "returned"
    /\ arg = {PTAS004, PTAS001, PTAS002}
    /\ ret.raises
    /\ Len(ret.conflicts) = 1

----------------------------------------------------------------------------
(* ConfigManager.is_rule_enabled on bounded select / ignore lists *)

InitConfig ==
    /\ command = "none"
    /\ fileConfig = NoFile
    /\ raised = FALSE
    /\ events = <<>>
    /\ pending = <<>>
    /\ analyzed = <<>>
    /\ pc = "call"
    /\ \E sel \in PatternSets(PatternPool), ign \in PatternSets(PatternPool) :
           config = [EmptyConfig EXCEPT !.select = sel, !.ignore = ign]
    /\ arg \in {PTAS001, PTAS005, PTCM003}
    /\ ret = Absent

IsRuleEnabled ==
    /\ pc = "call"
    /\ pc' = "returned"
    /\ ret' = is_rule_enabled(config, arg)
    /\ UNCHANGED <<arg, command, config, fileConfig, raised, events, pending,
                   analyzed>>

NextConfig == IsRuleEnabled

SpecConfig == InitConfig /\ [][NextConfig]_vars

\* r equals p or begins with p, stated on the characters
EqualsOrStartsWith(r, p) ==
    \E k \in 0..Len(r) : p = [i \in 1..k |-> r[i]]

\* C6: is_rule_enabled(r) is true exactly when (select is empty or r equals
\* or starts with a select pattern) and r equals or starts with no ignore
\* pattern; a rule matched by a select and by an ignore pattern is disabled.
C6_EnabledIffSelectedNotIgnored ==
    pc = "returned" =>
        /\ ret <=>
               /\ \/ config.select = {}
                  \/ \E p \in config.select : EqualsOrStartsWith(arg, p)
               /\ ~\E p \in config.ignore : EqualsOrStartsWith(arg, p)
        /\ (/\ \E p \in config.select : EqualsOrStartsWith(arg, p)
            /\ \E p \in config.ignore : EqualsOrStartsWith(arg, p))
               => ret = FALSE

C6_Witness ==
    /\ pc = "returned"
    /\ arg = PTAS001
    /\ config.select = {Prefix(PTAS001, 4)}
    /\ config.ignore = {PTAS001}
    /\ ret = FALSE

----------------------------------------------------------------------------
(* The check and show-config commands *)

\* the rule ids the registry finds enabled: is_rule_enabled over its rules
EnabledRules(cfg) == {rule_id \in RegistryRules : is_rule_enabled(cfg, rule_id)}

HasConflict(rule_ids) ==
    \E i \in 1..Len(CONFLICTING_RULE_GROUPS) :
        Cardinality(rule_ids \cap CONFLICTING_RULE_GROUPS[i]) > 1

RunPool == {PTAS001, PTAS005, PTCM003, Prefix(PTAS001, 4), <<>>}

FileConfigs ==
    {NoFile} \cup
    { [exists |-> TRUE, keys |-> k, select |-> sel, ignore |-> ign] :
        k \in SUBSET {"select", "ignore"},
        sel \in PatternSets(RunPool), ign \in PatternSets(RunPool) }

\* keys the check command passes as config_overrides
OverrideKeys == {"max_asserts", "min_asserts", "require_aaa_comments"}

Init ==
    /\ pc = "start"
    /\ command \in {"check", "show-config"}
    /\ config = EmptyConfig
    /\ fileConfig \in
           {f \in FileConfigs :
               /\ "select" \notin f.keys => f.select = {}
               /\ "ignore" \notin f.keys => f.ignore = {}}
    /\ raised = FALSE
    /\ events = <<>>
    /\ pending = <<>>
    /\ analyzed = <<>>
    /\ arg = Absent
    /\ ret = Absent

\* config_manager = ConfigManager()
NewConfigManager ==
    /\ pc = "start"
    /\ pc' = "manager"
    /\ config' = EmptyConfig
    /\ events' = Append(events, "ConfigManager")
    /\ UNCHANGED <<command, fileConfig, raised, pending, analyzed, arg, ret>>

\* show_config: config_manager.load_config()
ShowConfigLoad ==
    /\ command = "show-config"
    /\ pc = "manager"
    /\ pc' = "loaded"
    /\ config' = load_config(fileConfig)
    /\ events' = Append(events, "load_config")
    /\ UNCHANGED <<command, fileConfig, raised, pending, analyzed, arg, ret>>

\* CheckerRegistry(config_manager): _validate_rule_conflicts, and what the
\* command does with a RuleConflictError
NewCheckerRegistry ==
    /\ \/ command = "check" /\ pc = "manager"
       \/ command = "show-config" /\ pc = "loaded"
    /\ LET validation == config_validate_rule_selection(config)
       IN  /\ raised' = validation.raises
           /\ pc' = IF validation.raises /\ command = "check"
                    THEN "aborted"
                    ELSE "registry"
    /\ events' = Append(events, "CheckerRegistry")
    /\ UNCHANGED <<command, config, fileConfig, pending, analyzed, arg, ret>>

\* show_config: _show_config_json reports the enabled rules and the
\* conflicts among them
ShowConfig ==
    /\ command = "show-config"
    /\ pc = "registry"
    /\ pc' = "done"
    /\ ret' = [enabled |-> EnabledRules(config),
               conflicts |-> validate_rule_selection(EnabledRules(config))]
    /\ events' = Append(events, "show")
    /\ UNCHANGED <<command, config, fileConfig, raised, pending, analyzed, arg>>

\* AnalyzeTestsUseCase.execute, up to find_test_files: load_config, then
\* config.update(config_overrides) on the manager's own dictionary
Execute ==
    /\ command = "check"
    /\ pc = "registry"
    /\ pc' = "executing"
    /\ \E overrides \in SUBSET OverrideKeys :
           config' = [load_config(fileConfig) EXCEPT !.overrides = overrides]
    /\ events' = Append(events, "execute")
    /\ UNCHANGED <<command, fileConfig, raised, pending, analyzed, arg, ret>>

\* execute: test_file_paths = find_test_files(target_path)
FindTestFiles ==
    /\ pc = "executing"
    /\ \E n \in 0..MaxFiles :
           /\ pending' = [i \in 1..n |-> i]
           /\ pc' = IF n = 0 THEN "done" ELSE "files"
    /\ events' = Append(events, "find_test_files")
    /\ UNCHANGED <<command, config, fileConfig, raised, analyzed, arg, ret>>

\* execute: one iteration of the loop over test_file_paths; load_test_file
\* either raises or yields a file that _analyze_test_file analyzes under the
\* configuration then in force
LoadTestFile ==
    /\ pc = "files"
    /\ pending # <<>>
    /\ \E parsed \in BOOLEAN :
           analyzed' =
               IF parsed
               THEN Append(analyzed, [file |-> Head(pending),
                                      enabled |-> EnabledRules(config)])
               ELSE analyzed
    /\ pending' = Tail(pending)
    /\ events' = Append(events, "load_test_file")
    /\ UNCHANGED <<pc, command, config, fileConfig, raised, arg, ret>>

\* execute: the loop is over, the AnalysisResult is returned
ReturnResult ==
    /\ pc = "files"
    /\ pending = <<>>
    /\ pc' = "done"
    /\ UNCHANGED <<command, config, fileConfig, raised, events, pending,
                   analyzed, arg, ret>>

Next ==
    \/ NewConfigManager
    \/ ShowConfigLoad
    \/ NewCheckerRegistry
    \/ ShowConfig
    \/ Execute
    \/ FindTestFiles
    \/ LoadTestFile
    \/ ReturnResult

Spec == Init /\ [][Next]_vars

Occurs(e) == \E i \in 1..Len(events) : events[i] = e

\* C2: in a run of check whose configuration enables two rule ids of one
\* conflict group, RuleConflictError is raised when the CheckerRegistry is
\* constructed, and execute, find_test_files and load_test_file never run.
C2_ConflictAbortsBeforeAnyFile ==
    (command = "check" /\ HasConflict(EnabledRules(load_config(fileConfig))))
        => /\ pc \notin {"start", "manager"} => raised
           /\ ~Occurs("execute")
           /\ ~Occurs("find_test_files")
           /\ ~Occurs("load_test_file")

\* C3: whenever a test file is analyzed, the rule ids enabled under the
\* configuration then in force hold at most one rule id of each conflict group.
C3_AnalyzedWithoutConflict ==
    \A i \in 1..Len(analyzed) : ~HasConflict(analyzed[i].enabled)

----------------------------------------------------------------------------
(* BaseRule: building verdicts *)

\* CheckSeverity
CheckSeverity == {"info", "warning", "error"}

\* str.lower on the words the model's strings are made of
lower(str) ==
    CASE str = "WARNING" -> "warning"
      [] str = "Info" -> "info"
      [] str = "ERROR" -> "error"
      [] str = "Arrange" -> "arrange"
      [] str = "Act" -> "act"
      [] str = "Assert" -> "assert"
      [] str = "And" -> "and"
      [] OTHER -> str

get_rule_severity_default_warning(cfg, rule_id) ==
    IF rule_id \in DOMAIN cfg.severity THEN cfg.severity[rule_id] ELSE "warning"

\* ConfigManager.get_rule_severity
get_rule_severity(cfg, rule_id) ==
    IF rule_id \in DOMAIN cfg.severity THEN cfg.severity[rule_id] ELSE "error"

\* BaseRule._get_severity_from_config; has_manager is FALSE when the rule's
\* config_manager is None
get_severity_from_config(has_manager, cfg, rule_id) ==
    IF has_manager
    THEN LET severity_str == lower(get_rule_severity(cfg, rule_id))
         IN  IF severity_str \in CheckSeverity THEN severity_str ELSE "error"
    ELSE "error"

\* BaseRule._create_result; severity "none" stands for None
create_result(has_manager, cfg, rule_id, message, severity) ==
    [rule_id |-> rule_id,
     message |-> message,
     severity |-> IF severity = "none"
                  THEN get_severity_from_config(has_manager, cfg, rule_id)
                  ELSE severity]

\* BaseRule._create_success_result
create_success_result(has_manager, cfg, rule_id, message) ==
    create_result(has_manager, cfg, rule_id, message, "info")

\* BaseRule._create_failure_result
create_failure_result(has_manager, cfg, rule_id, message) ==
    create_result(has_manager, cfg, rule_id, message, "none")

SeverityNames == {"info", "warning", "error", "WARNING", "Info", "critical"}

SeverityRules == {PTCM001, PTAS004}

SeverityMaps ==
    UNION {[D -> SeverityNames] : D \in SUBSET SeverityRules}

InitRules ==
    /\ command = "none"
    /\ fileConfig = NoFile
    /\ raised = FALSE
    /\ events = <<>>
    /\ pending = <<>>
    /\ analyzed = <<>>
    /\ pc = "call"
    /\ \E sev \in SeverityMaps : config = [EmptyConfig EXCEPT !.severity = sev]
    /\ arg \in [rule_id : SeverityRules \cup {PTAS002}, has_manager : BOOLEAN]
    /\ ret = Absent

CreateSuccessResult ==
    /\ pc = "call"
    /\ pc' = "success_built"
    /\ ret' = create_success_result(arg.has_manager, config, arg.rule_id,
                                    "detected")
    /\ UNCHANGED <<arg, command, config, fileConfig, raised, events, pending,
                   analyzed>>

CreateFailureResult ==
    /\ pc = "call"
    /\ pc' = "failure_built"
    /\ ret' = create_failure_result(arg.has_manager, config, arg.rule_id,
                                    "not detected")
    /\ UNCHANGED <<arg, command, config, fileConfig, raised, events, pending,
                   analyzed>>

NextRules == CreateSuccessResult \/ CreateFailureResult

SpecRules == InitRules /\ [][NextRules]_vars

HasSeverityEntry == arg.has_manager /\ arg.rule_id \in DOMAIN config.severity

----------------------------------------------------------------------------
(* Assertion rules and the checkers that apply them *)

\* A checker configuration: the keys it holds and their values; max_density
\* is the fraction <<numerator, denominator>>.
NoCheckerConfig ==
    [keys |-> {}, min_asserts |-> 1, max_asserts |-> 3, max_density |-> <<1, 2>>]

\* _get_config_value
get_config_value(cc, key, default) ==
    IF key \in cc.keys THEN cc[key] ELSE default

\* ASTParser.count_assert_statements
count_assert_statements(fn) == fn.assert_count

RECURSIVE CountCode(_)
CountCode(body) ==
    IF body = <<>> THEN 0
    ELSE (IF body[1] = "code" THEN 1 ELSE 0) + CountCode(Tail(body))

\* AssertDensityChecker._count_effective_lines; fn.body holds the lines after
\* the definition line up to the function's last line
count_effective_lines(fn) == CountCode(fn.body)

RuleResult(rule_id, severity) == [rule_id |-> rule_id, severity |-> severity]

\* PTAS004.check
PTAS004_check(fn, cc) ==
    IF count_assert_statements(fn) = 0
    THEN <<RuleResult(PTAS004, "error")>> ELSE <<>>

\* PTAS001.check
PTAS001_check(fn, cc, cfg) ==
    IF count_assert_statements(fn) < get_config_value(cc, "min_asserts", 1)
    THEN <<RuleResult(PTAS001, get_severity_from_config(TRUE, cfg, PTAS001))>>
    ELSE <<>>

\* PTAS002.check
PTAS002_check(fn, cc) ==
    IF count_assert_statements(fn) > get_config_value(cc, "max_asserts", 3)
    THEN <<RuleResult(PTAS002, "warning")>> ELSE <<>>

\* density > max_density, with density = assert_count / function_lines
high_density(fn, cc) ==
    LET function_lines == count_effective_lines(fn)
        max_density == get_config_value(cc, "max_density", <<1, 2>>)
    IN  /\ function_lines > 0
        /\ count_assert_statements(fn) * max_density[2]
               > max_density[1] * function_lines

\* PTAS003.check
PTAS003_check(fn, cc) ==
    IF high_density(fn, cc) THEN <<RuleResult(PTAS003, "info")>> ELSE <<>>

\* PTAS005.check
PTAS005_check(fn, cc) ==
    LET assert_count == count_assert_statements(fn)
    IN  IF /\ get_config_value(cc, "min_asserts", 1) <= assert_count
           /\ assert_count <= get_config_value(cc, "max_asserts", 3)
        THEN <<RuleResult(PTAS005, "info")>> ELSE <<>>

\* domain AssertionChecker.check_function
assertion_check_function(fn, cc, cfg) ==
    LET no_assertions_results ==
            IF is_rule_enabled(cfg, PTAS004) THEN PTAS004_check(fn, cc) ELSE <<>>
        too_few_results ==
            IF is_rule_enabled(cfg, PTAS001) THEN PTAS001_check(fn, cc, cfg) ELSE <<>>
        too_many_results ==
            IF is_rule_enabled(cfg, PTAS002) THEN PTAS002_check(fn, cc) ELSE <<>>
        density_results ==
            IF is_rule_enabled(cfg, PTAS003) THEN PTAS003_check(fn, cc) ELSE <<>>
        results == too_few_results \o too_many_results \o density_results
    IN  IF no_assertions_results # <<>> THEN no_assertions_results
        ELSE IF results = <<>> /\ is_rule_enabled(cfg, PTAS005)
             THEN PTAS005_check(fn, cc)
             ELSE results

\* infrastructure AssertionChecker.check_function
infra_assertion_check_function(fn, cc, cfg) ==
    LET no_assertions_results == PTAS004_check(fn, cc)
        results == PTAS001_check(fn, cc, cfg) \o PTAS002_check(fn, cc)
                       \o PTAS003_check(fn, cc)
    IN  IF no_assertions_results # <<>> THEN no_assertions_results
        ELSE IF results = <<>> THEN PTAS005_check(fn, cc)
             ELSE results

\* AssertDensityChecker.check_function
density_check_function(fn, cc) ==
    LET max_asserts == get_config_value(cc, "max_asserts", 3)
        min_asserts == get_config_value(cc, "min_asserts", 1)
        assert_count == count_assert_statements(fn)
        results ==
            (IF assert_count < min_asserts
             THEN <<RuleResult(PTAS001, "warning")>> ELSE <<>>)
            \o (IF assert_count > max_asserts
                THEN <<RuleResult(PTAS002, "warning")>> ELSE <<>>)
            \o (IF high_density(fn, cc)
                THEN <<RuleResult(PTAS003, "info")>> ELSE <<>>)
            \o (IF assert_count = 0
                THEN <<RuleResult(PTAS004, "error")>> ELSE <<>>)
    IN  IF results = <<>> /\ assert_count >= min_asserts
                          /\ assert_count <= max_asserts
        THEN <<RuleResult(PTAS005, "info")>>
        ELSE results

LineKinds == {"code", "blank", "comment"}

Bodies == UNION {[1..n -> LineKinds] : n \in 0..MaxBodyLines}

TestFunctions == [assert_count : 0..MaxAsserts, body : Bodies]

CheckerConfigs ==
    [keys : {{}, {"min_asserts"}, {"max_asserts"}, {"max_density"},
             {"min_asserts", "max_asserts", "max_density"}},
     min_asserts : {0, 2},
     max_asserts : {1},
     max_density : {<<0, 1>>, <<1, 1>>}]

AssertPool == {PTAS001, PTAS003, PTAS004, PTAS005, Prefix(PTAS001, 4)}

InitAssertion ==
    /\ command = "none"
    /\ fileConfig = NoFile
    /\ raised = FALSE
    /\ events = <<>>
    /\ pending = <<>>
    /\ analyzed = <<>>
    /\ pc = "call"
    /\ \E sel \in PatternSets(AssertPool) :
           config = [EmptyConfig EXCEPT !.select = sel]
    /\ arg \in [fn : TestFunctions, cc : CheckerConfigs]
    /\ ret = Absent

AssertionUnchanged ==
    UNCHANGED <<arg, command, config, fileConfig, raised, events, pending,
                analyzed>>

AssertionCheckFunction ==
    /\ pc = "call"
    /\ pc' = "assertion_checked"
    /\ ret' = assertion_check_function(arg.fn, arg.cc, config)
    /\ AssertionUnchanged

InfraAssertionCheckFunction ==
    /\ pc = "call"
    /\ pc' = "infra_assertion_checked"
    /\ ret' = infra_assertion_check_function(arg.fn, arg.cc, config)
    /\ AssertionUnchanged

DensityCheckFunction ==
    /\ pc = "call"
    /\ pc' = "density_checked"
    /\ ret' = density_check_function(arg.fn, arg.cc)
    /\ AssertionUnchanged

NextAssertion ==
    \/ AssertionCheckFunction
    \/ InfraAssertionCheckFunction
    \/ DensityCheckFunction

SpecAssertion == InitAssertion /\ [][NextAssertion]_vars

AssertionChecked ==
    pc \in {"assertion_checked", "infra_assertion_checked", "density_checked"}

\* the rule is consulted: the checker that reads the selection has it enabled
Consulted(rule_id) ==
    pc = "assertion_checked" => is_rule_enabled(config, rule_id)

RuleIdsOf(results) == {results[i].rule_id : i \in 1..Len(results)}

\* C4: for a function with zero assert statements the checker returns exactly
\* one result, PTAS004, and nothing from PTAS001, PTAS002, PTAS003 or PTAS005.
C4_ZeroAssertsOnlyNoAssertions ==
    (AssertionChecked /\ arg.fn.assert_count = 0 /\ Consulted(PTAS004))
        => /\ Len(ret) = 1
           /\ ret[1].rule_id = PTAS004

\* C8: for a function whose assert count lies within [min_asserts,
\* max_asserts] the checker emits PTAS005; a PTAS003 result stands alongside
\* it and never suppresses it.
C8_CountOkNotSuppressedByDensity ==
    (/\ AssertionChecked
     /\ arg.fn.assert_count > 0
     /\ get_config_value(arg.cc, "min_asserts", 1) <= arg.fn.assert_count
     /\ arg.fn.assert_count <= get_config_value(arg.cc, "max_asserts", 3)
     /\ Consulted(PTAS005))
        => PTAS005 \in RuleIdsOf(ret)

----------------------------------------------------------------------------
(* PatternChecker: the priority loop over the pattern rules *)

\* priority_rules
priority_rules == <<PTCM003, PTCM001, PTCM002, PTST001, PTLG001>>

RECURSIVE pattern_loop_no_stop(_, _, _, _)
pattern_loop_no_stop(i, cfg, outputs, evaluated) ==
    IF i > Len(priority_rules)
    THEN [results |-> <<>>, evaluated |-> evaluated]
    ELSE LET rule == priority_rules[i]
             rest == pattern_loop_no_stop(i + 1, cfg, outputs,
                                          Append(evaluated, rule))
         IN  IF is_rule_enabled(cfg, rule)
             THEN IF outputs[rule] # <<>> /\ rest.results = <<>>
                  THEN [rest EXCEPT !.results = <<outputs[rule][1]>>]
                  ELSE rest
             ELSE pattern_loop_no_stop(i + 1, cfg, outputs, evaluated)

\* The for loop of PatternChecker.check_function from the i-th priority
\* rule on; outputs[rule] is what rule.check returns for the function, and
\* evaluated logs the rules whose check was called.
RECURSIVE pattern_loop(_, _, _, _)
pattern_loop(i, cfg, outputs, evaluated) ==
    IF i > Len(priority_rules)
    THEN [results |-> <<>>, evaluated |-> evaluated]
    ELSE LET rule == priority_rules[i]
         IN  IF is_rule_enabled(cfg, rule)
             THEN IF outputs[rule] # <<>>
                  THEN [results |-> <<outputs[rule][1]>>,
                        evaluated |-> Append(evaluated, rule)]
                  ELSE pattern_loop(i + 1, cfg, outputs,
                                    Append(evaluated, rule))
             ELSE pattern_loop(i + 1, cfg, outputs, evaluated)

\* PatternChecker.check_function
pattern_check_function(cfg, outputs) == pattern_loop(1, cfg, outputs, <<>>)

PatternRules == {priority_rules[i] : i \in 1..Len(priority_rules)}

\* the results a rule's check may return; it returns none, the first, or both
RuleOutputs(rule) == <<RuleResult(rule, "info"), RuleResult(rule, "error")>>

PatternOutputs ==
    {[r \in PatternRules |-> SubSeq(RuleOutputs(r), 1, n[r])] :
        n \in [PatternRules -> 0..2]}

PatternPool2 == {PTCM003, PTCM001, PTST001, PTLG001, Prefix(PTCM001, 4)}

InitPattern ==
    /\ command = "none"
    /\ fileConfig = NoFile
    /\ raised = FALSE
    /\ events = <<>>
    /\ pending = <<>>
    /\ analyzed = <<>>
    /\ pc = "call"
    /\ \E sel \in PatternSets(PatternPool2), ign \in {{}, {PTCM003}} :
           config = [EmptyConfig EXCEPT !.select = sel, !.ignore = ign]
    /\ arg \in PatternOutputs
    /\ ret = Absent

PatternCheckFunction ==
    /\ pc = "call"
    /\ pc' = "pattern_checked"
    /\ ret' = pattern_check_function(config, arg)
    /\ UNCHANGED <<arg, command, config, fileConfig, raised, events, pending,
                   analyzed>>

NextPattern == PatternCheckFunction

SpecPattern == InitPattern /\ [][NextPattern]_vars

\* position of a rule in the priority order
Priority(rule) == CHOOSE i \in 1..Len(priority_rules) : priority_rules[i] = rule

Fires(rule) == is_rule_enabled(config, rule) /\ arg[rule] # <<>>

\* C5: the pattern checker returns at most one result: the first result of
\* the first rule, in the order PTCM003, PTCM001, PTCM002, PTST001, PTLG001,
\* that is enabled and returns a non-empty list; no rule after that one is
\* evaluated, and a disabled rule is never evaluated.
C5_FirstEnabledNonEmptyWins ==
    pc = "pattern_checked" =>
        LET called == {ret.evaluated[i] : i \in 1..Len(ret.evaluated)}
        IN  /\ Len(ret.results) <= 1
            /\ \A r \in called : is_rule_enabled(config, r)
            /\ \A r \in PatternRules :
                   (Fires(r) /\ \A q \in PatternRules :
                                    Priority(q) < Priority(r) => ~Fires(q))
                       => /\ ret.results = <<arg[r][1]>>
                          /\ \A q \in called : Priority(q) <= Priority(r)
            /\ (\A r \in PatternRules : ~Fires(r)) => ret.results = <<>>

C5_Witness ==
    /\ pc = "pattern_checked"
    /\ ~is_rule_enabled(config, PTCM003)
    /\ arg[PTCM003] # <<>>
    /\ Fires(PTCM001)
    /\ Fires(PTST001)
    /\ Len(arg[PTCM001]) = 2
    /\ ret.results = <<arg[PTCM001][1]>>
    /\ ret.evaluated = <<PTCM001>>

----------------------------------------------------------------------------
(* PTCM001: the AAA pattern in comments *)

\* A line of source text is a sequence of lexical pieces: "#", " " (a run of
\* one white-space character), the words "arrange", "act", "assert", "and" in
\* either letter case, the separators "&", "/", ",", and "x" for any other
\* text.  No marker word spans two pieces, so matching piece by piece is
\* matching character by character.
Separators == {"&", "/", ","}

\* str.strip
RECURSIVE lstrip(_)
lstrip(line) ==
    IF line # <<>> /\ line[1] = " " THEN lstrip(Tail(line)) ELSE line

RECURSIVE rstrip(_)
rstrip(line) ==
    IF line # <<>> /\ line[Len(line)] = " "
    THEN rstrip(SubSeq(line, 1, Len(line) - 1)) ELSE line

strip(line) == rstrip(lstrip(line))

\* str.lower on a line
lower_line(line) == [i \in 1..Len(line) |-> lower(line[i])]

\* ASTParser.find_comments; lines are the function's lines from its
\* definition line to its last line, numbered from 1
find_comments(lines) ==
    LET stripped(i) == strip(lines[i])
        is_comment(i) == stripped(i) # <<>> /\ stripped(i)[1] = "#"
        F[i \in 0..Len(lines)] ==
            IF i = 0 THEN <<>>
            ELSE IF is_comment(i) THEN Append(F[i - 1], <<i, stripped(i)>>)
                 ELSE F[i - 1]
    IN  F[Len(lines)]

\* A regular expression is a sequence of elements: a literal piece, "s*" for
\* \s*, "s+" for \s+, "sep" for [&/,].  match_at: the expression from its
\* i-th element matches the text starting at position j.
RECURSIVE match_at(_, _, _, _)
match_at(pattern, i, text, j) ==
    IF i > Len(pattern) THEN TRUE
    ELSE CASE pattern[i] = "s*" ->
                  \/ match_at(pattern, i + 1, text, j)
                  \/ /\ j <= Len(text)
                     /\ text[j] = " "
                     /\ match_at(pattern, i, text, j + 1)
           [] pattern[i] = "s+" ->
                  /\ j <= Len(text)
                  /\ text[j] = " "
                  /\ \/ match_at(pattern, i + 1, text, j + 1)
                     \/ match_at(pattern, i, text, j + 1)
           [] pattern[i] = "sep" ->
                  /\ j <= Len(text)
                  /\ text[j] \in Separators
                  /\ match_at(pattern, i + 1, text, j + 1)
           [] OTHER ->
                  /\ j <= Len(text)
                  /\ text[j] = pattern[i]
                  /\ match_at(pattern, i + 1, text, j + 1)

\* re.search
re_search(pattern, text) ==
    \E j \in 1..Len(text) : match_at(pattern, 1, text, j)

\* aaa_patterns
aaa_patterns ==
    <<<<"#", "s*", "arrange">>, <<"#", "s*", "act">>, <<"#", "s*", "assert">>>>

\* aaa_combined_patterns
aaa_combined_patterns ==
    <<<<"#", "s*", "act", "s*", "sep", "s*", "assert">>,
      <<"#", "s*", "act", "s+", "and", "s+", "assert">>,
      <<"#", "s*", "arrange", "s*", "sep", "s*", "act", "s*", "sep", "s*",
        "assert">>,
      <<"#", "s*", "arrange", "s+", "and", "s+", "act", "s+", "and", "s+",
        "assert">>>>

\* PTCM001._check_patterns_in_comments
check_patterns_in_comments(comments, patterns) ==
    Cardinality({c \in 1..Len(comments) :
                    \E p \in 1..Len(patterns) :
                        re_search(patterns[p], lower_line(comments[c][2]))})

\* PTCM001._check_combined_patterns_in_comments
check_combined_patterns_in_comments(comments, patterns) ==
    Cardinality({cp \in (1..Len(comments)) \X (1..Len(patterns)) :
                    re_search(patterns[cp[2]], lower_line(comments[cp[1]][2]))})

total_aaa_score_combined_once(comments) ==
    check_patterns_in_comments(comments, aaa_patterns)
        + check_combined_patterns_in_comments(comments, aaa_combined_patterns)

\* total_aaa_score in PTCM001.check
total_aaa_score(comments) ==
    check_patterns_in_comments(comments, aaa_patterns)
        + check_combined_patterns_in_comments(comments, aaa_combined_patterns) * 2

AAADetected == "AAA pattern detected in comments"
AAANotDetected == "AAA pattern not detected in comments"

\* PTCM001.check
PTCM001_check(lines, cfg) ==
    IF total_aaa_score(find_comments(lines)) >= 2
    THEN create_success_result(TRUE, cfg, PTCM001, AAADetected)
    ELSE create_failure_result(TRUE, cfg, PTCM001, AAANotDetected)

CommentArrange == <<"#", " ", "Arrange">>
CommentAct == <<"#", " ", "Act">>
CommentAssert == <<"#", " ", "Assert">>
CommentActAndAssert == <<"#", " ", "Act", " ", "&", " ", "Assert">>

\* the lines a test function is written from
LinePool ==
    {<<"x">>,
     CommentArrange, CommentAct, CommentAssert, CommentActAndAssert,
     <<"#", "act", "/", "assert">>,
     <<"#", " ", "Act", " ", "and", " ", "Assert">>,
     <<"#", " ", "Arrange", ",", " ", "Act", ",", " ", "Assert">>,
     <<"#", " ", "arrange", " ", "and", " ", "act", " ", "and", " ", "assert">>,
     <<" ", "#", " ", "Assert", " ">>,
     <<"x", " ", "#", " ", "Act">>,
     <<"#", " ", "x">>,
     <<"#", " ", "Arrange", " ", "#", " ", "Act">>,
     <<"#", " ", "act", "x">>}

FunctionLines == UNION {[1..n -> LinePool] : n \in 0..MaxFunctionLines}

InitComments ==
    /\ command = "none"
    /\ fileConfig = NoFile
    /\ raised = FALSE
    /\ events = <<>>
    /\ pending = <<>>
    /\ analyzed = <<>>
    /\ pc = "call"
    /\ config = EmptyConfig
    /\ arg \in FunctionLines
    /\ ret = Absent

\* PTCM001.check on the function; score records total_aaa_score
CheckPTCM001 ==
    /\ pc = "call"
    /\ pc' = "ptcm001_checked"
    /\ ret' = [score |-> total_aaa_score(find_comments(arg)),
               result |-> PTCM001_check(arg, config)]
    /\ UNCHANGED <<arg, command, config, fileConfig, raised, events, pending,
                   analyzed>>

NextComments == CheckPTCM001

SpecComments == InitComments /\ [][NextComments]_vars

\* the texts of the function's comments, in order
CommentTexts ==
    LET comments == find_comments(arg)
    IN  [i \in 1..Len(comments) |-> comments[i][2]]

\* the single markers that occur in some comment of the function
MarkersFound ==
    {m \in 1..Len(aaa_patterns) :
        \E i \in 1..Len(CommentTexts) :
            re_search(aaa_patterns[m], lower_line(CommentTexts[i]))}

\* some comment of the function holds a combined marker
CombinedFound ==
    \E i \in 1..Len(CommentTexts), p \in 1..Len(aaa_combined_patterns) :
        re_search(aaa_combined_patterns[p], lower_line(CommentTexts[i]))

\* C9: PTCM001 reports the AAA comment pattern as detected exactly when the
\* comments hold at least two distinct single markers among arrange, act,
\* assert, or at least one combined marker; # Arrange, # Act, # Assert score
\* 3 and are detected; # Arrange alone scores 1 and is not detected.
C9_DetectedIffTwoDistinctOrCombined ==
    pc = "ptcm001_checked" =>
        /\ (ret.result.message = AAADetected)
               <=> (Cardinality(MarkersFound) >= 2 \/ CombinedFound)
        /\ CommentTexts = <<CommentArrange, CommentAct, CommentAssert>>
               => ret.score = 3 /\ ret.result.message = AAADetected
        /\ CommentTexts = <<CommentArrange>>
               => ret.score = 1 /\ ret.result.message = AAANotDetected

----------------------------------------------------------------------------
(* ConfigManager._merge_config: deep_merge of nested dictionaries *)

\* A configuration value is a dict (its items a function from keys to
\* values) or a leaf (a scalar or a list, which deep_merge never looks into).
DictValue(items) == [kind |-> "dict", items |-> items]
LeafValue(v) == [kind |-> "leaf", v |-> v]

\* isinstance(value, dict)
is_dict(value) == value.kind = "dict"

deep_merge_keep_base(base, update) ==
    [key \in DOMAIN base \cup DOMAIN update |->
        IF key \in DOMAIN base THEN base[key] ELSE update[key]]

dict_update(base, update) ==
    [key \in DOMAIN base \cup DOMAIN update |->
        IF key \in DOMAIN update THEN update[key] ELSE base[key]]

\* deep_merge(base, update) on the items of two dicts; the value is base
\* after the merge
RECURSIVE deep_merge(_, _)
deep_merge(base, update) ==
    [key \in DOMAIN base \cup DOMAIN update |->
        IF key \in DOMAIN update
        THEN IF /\ key \in DOMAIN base
                /\ is_dict(base[key])
                /\ is_dict(update[key])
             THEN DictValue(deep_merge(base[key].items, update[key].items))
             ELSE update[key]
        ELSE base[key]]

MergeKeys == {"a", "b"}

MergeLeaves == {LeafValue(n) : n \in 1..MaxLeaf}

\* dicts over subsets of the keys with the given values
DictsOver(values) == UNION {[D -> values] : D \in SUBSET MergeKeys}

\* dicts of leaves, and dicts whose values are leaves or dicts of leaves
FlatDicts == DictsOver(MergeLeaves)
NestedDicts == DictsOver(MergeLeaves \cup {DictValue(d) : d \in FlatDicts})

\* the dict under the key "rules" of an enclosing dict
Wrapped(items) == [key \in {"rules"} |-> DictValue(items)]

InitMerge ==
    /\ Idle
    /\ pc = "call"
    /\ \E base \in NestedDicts, update \in NestedDicts :
           arg = [base |-> Wrapped(base), update |-> Wrapped(update)]
    /\ ret = Absent

\* _merge_config(new_config) with self._config = base
MergeConfig ==
    /\ pc = "call"
    /\ pc' = "merged"
    /\ ret' = deep_merge(arg.base, arg.update)
    /\ UNCHANGED <<arg>>
    /\ IdleUnchanged

NextMerge == MergeConfig

SpecMerge == InitMerge /\ [][NextMerge]_vars

\* key paths into a dict, one to three keys long
MergePathKeys == MergeKeys \cup {"rules"}

MergePaths ==
    UNION {[1..n -> MergePathKeys] : n \in 1..3}

\* the path leads to a value of the dict with these items
RECURSIVE HasPath(_, _)
HasPath(items, path) ==
    /\ path # <<>>
    /\ path[1] \in DOMAIN items
    /\ \/ Len(path) = 1
       \/ /\ is_dict(items[path[1]])
          /\ HasPath(items[path[1]].items, Tail(path))

\* the value the path leads to
RECURSIVE AtPath(_, _)
AtPath(items, path) ==
    IF Len(path) = 1 THEN items[path[1]]
    ELSE AtPath(items[path[1]].items, Tail(path))

\* the override holds a leaf where the path passes through
ReplacesAncestor(update, path) ==
    \E n \in 1..(Len(path) - 1) :
        /\ HasPath(update, SubSeq(path, 1, n))
        /\ ~is_dict(AtPath(update, SubSeq(path, 1, n)))

\* C12: merging an override into a base replaces every scalar or list field
\* the override holds, merges dict fields present in both key by key, adds
\* the fields only the override holds, and leaves every field of the base
\* the override does not mention (at any depth, inside the dicts that are
\* merged) unchanged.
C12_DeepMergeFieldByField ==
    pc = "merged" =>
        \A path \in MergePaths :
            LET inBase == HasPath(arg.base, path)
                inUpdate == HasPath(arg.update, path)
                bothDicts == /\ inBase
                             /\ inUpdate
                             /\ is_dict(AtPath(arg.base, path))
                             /\ is_dict(AtPath(arg.update, path))
            IN  /\ (inUpdate /\ ~bothDicts)
                       => /\ HasPath(ret, path)
                          /\ AtPath(ret, path) = AtPath(arg.update, path)
                /\ bothDicts
                       => /\ HasPath(ret, path)
                          /\ is_dict(AtPath(ret, path))
                          /\ DOMAIN AtPath(ret, path).items
                                 = DOMAIN AtPath(arg.base, path).items
                                       \cup DOMAIN AtPath(arg.update, path).items
                /\ (inBase /\ ~inUpdate /\ ~ReplacesAncestor(arg.update, path))
                       => /\ HasPath(ret, path)
                          /\ AtPath(ret, path) = AtPath(arg.base, path)

C12_Witness ==
    /\ pc = "merged"
    /\ arg.base = Wrapped([a |-> DictValue([a |-> LeafValue(1),
                                            b |-> LeafValue(1)]),
                           b |-> LeafValue(1)])
    /\ arg.update = Wrapped([a |-> DictValue([a |-> LeafValue(2)])])
    /\ ret = Wrapped([a |-> DictValue([a |-> LeafValue(2),
                                       b |-> LeafValue(1)]),
                      b |-> LeafValue(1)])

----------------------------------------------------------------------------
(* ConfigManager.get_directory_config: per-directory overrides *)

\* A file path and a directory pattern are sequences of path segments; the
\* segment "**" of a pattern stands for any run of directories.
RECURSIVE glob_match(_, _)
glob_match(pattern, dirs) ==
    IF pattern = <<>> THEN dirs = <<>>
    ELSE IF pattern[1] = "**"
         THEN \/ glob_match(Tail(pattern), dirs)
              \/ dirs # <<>> /\ glob_match(pattern, Tail(dirs))
         ELSE /\ dirs # <<>>
              /\ dirs[1] = pattern[1]
              /\ glob_match(Tail(pattern), Tail(dirs))

\* _matches_directory_pattern: the file lies in the directory the pattern
\* names or below it (a pattern without trailing ** gets one)
matches_directory_pattern(file_path, pattern) ==
    LET dirs == SubSeq(file_path, 1, Len(file_path) - 1)
        full == IF pattern # <<>> /\ pattern[Len(pattern)] = "**"
                THEN pattern ELSE Append(pattern, "**")
    IN  glob_match(full, dirs)

\* how specific a pattern is: its literal segments
specificity(pattern) ==
    Cardinality({i \in 1..Len(pattern) : pattern[i] # "**"})

\* the overrides of the matching patterns with the given specificity, merged
\* in the order of per_directory_rules onto the configuration so far
RECURSIVE merge_matching(_, _, _, _)
merge_matching(cfg, rules, file_path, level) ==
    IF rules = <<>> THEN cfg
    ELSE LET rule == rules[1]
             merged == IF /\ specificity(rule.pattern) = level
                          /\ matches_directory_pattern(file_path, rule.pattern)
                       THEN deep_merge(cfg, rule.override)
                       ELSE cfg
         IN  merge_matching(merged, Tail(rules), file_path, level)

\* the levels of specificity from the given one up, least specific first
RECURSIVE merge_levels(_, _, _, _, _)
merge_levels(cfg, rules, file_path, level, top) ==
    IF level > top THEN cfg
    ELSE merge_levels(merge_matching(cfg, rules, file_path, level),
                      rules, file_path, level + 1, top)

\* get_directory_config(file_path): the global configuration with the
\* overrides of the matching patterns merged in, the most specific last
get_directory_config(global, rules, file_path) ==
    LET top == IF rules = <<>> THEN 0
               ELSE CHOOSE n \in {specificity(rules[i].pattern) :
                                      i \in 1..Len(rules)} :
                        \A i \in 1..Len(rules) :
                            specificity(rules[i].pattern) <= n
    IN  merge_levels(global, rules, file_path, 0, top)

\* the global configuration of the directory cases: select, ignore, and the
\* parameters of PTAS001
GlobalDirConfig ==
    [select |-> LeafValue("A"),
     ignore |-> LeafValue("none"),
     rules |-> DictValue([PTAS001 |->
                  DictValue([min_asserts |-> LeafValue("one"),
                             max_asserts |-> LeafValue("five")])])]

\* an override holding the given fields ("absent": the field is not there)
DirOverride(select, ignore, min_asserts) ==
    LET chosen == {f \in {"select", "ignore", "rules"} :
                      \/ f = "select" /\ select # "absent"
                      \/ f = "ignore" /\ ignore # "absent"
                      \/ f = "rules" /\ min_asserts # "absent"}
    IN  [f \in chosen |->
            CASE f = "select" -> LeafValue(select)
              [] f = "ignore" -> LeafValue(ignore)
              [] OTHER -> DictValue([PTAS001 |->
                              DictValue([min_asserts |->
                                            LeafValue(min_asserts)])])]

DirOverrides ==
    {DirOverride(sel, ign, min) :
        sel \in {"absent", "B", "C"}, ign \in {"absent", "X"},
        min \in {"absent", "two"}}

DirPatterns ==
    {<<"tests", "**">>, <<"tests", "unit">>, <<"**", "unit">>, <<"src", "**">>}

DirFiles ==
    {<<"tests", "unit", "x.py">>, <<"tests", "integration", "x.py">>,
     <<"src", "tests", "unit", "x.py">>, <<"docs", "x.py">>}

DirRule == [pattern : DirPatterns, override : DirOverrides]

\* per_directory_rules: a dict, so no pattern occurs twice
PerDirectoryRules ==
    {r \in UNION {[1..n -> DirRule] : n \in 0..MaxDirRules} :
        \A i, j \in 1..Len(r) : i # j => r[i].pattern # r[j].pattern}

InitDirectory ==
    /\ Idle
    /\ pc = "call"
    /\ arg \in [file : DirFiles, rules : PerDirectoryRules]
    /\ ret = Absent

GetDirectoryConfig ==
    /\ pc = "call"
    /\ pc' = "resolved"
    /\ ret' = get_directory_config(GlobalDirConfig, arg.rules, arg.file)
    /\ UNCHANGED <<arg>>
    /\ IdleUnchanged

NextDirectory == GetDirectoryConfig

SpecDirectory == InitDirectory /\ [][NextDirectory]_vars

\* the rules whose pattern matches the file and whose override holds a value
\* at the path
Overriding(path) ==
    {i \in 1..Len(arg.rules) :
        /\ matches_directory_pattern(arg.file, arg.rules[i].pattern)
        /\ HasPath(arg.rules[i].override, path)}

----------------------------------------------------------------------------
(* ConfigManager: per_file_ignores *)

\* A path string is a sequence of pieces: names and "/"; in a pattern the
\* piece "*" matches any run of pieces, "/" included (fnmatch).
RECURSIVE fnmatch(_, _)
fnmatch(name, pattern) ==
    IF pattern = <<>> THEN name = <<>>
    ELSE IF pattern[1] = "*"
         THEN \/ fnmatch(name, Tail(pattern))
              \/ name # <<>> /\ fnmatch(Tail(name), pattern)
         ELSE /\ name # <<>>
              /\ name[1] = pattern[1]
              /\ fnmatch(Tail(name), Tail(pattern))

\* ConfigManager._matches_file_pattern
matches_file_pattern(file_path, pattern) == fnmatch(file_path, pattern)

\* "/".join(parts)
RECURSIVE join(_)
join(parts) ==
    IF Len(parts) <= 1 THEN parts
    ELSE <<parts[1], "/">> \o join(Tail(parts))

\* the ignore entries of the patterns that match the path, accumulated;
\* per_file_ignores maps a pattern to a list of entries or to one string
collect_ignores(path_str, per_file_ignores) ==
    UNION {IF /\ matches_file_pattern(path_str, pattern)
              /\ per_file_ignores[pattern].type \in {"list", "str"}
           THEN per_file_ignores[pattern].entries ELSE {} :
              pattern \in DOMAIN per_file_ignores}

\* common_dirs of _handle_external_file_matching
common_dirs ==
    <<"tests", "test", "docs", "doc", "tools", "src", "lib", "examples">>

\* parts[parts.index(common_dir):]
from_first(parts, common_dir) ==
    LET first == CHOOSE i \in 1..Len(parts) :
                     /\ parts[i] = common_dir
                     /\ \A j \in 1..(i - 1) : parts[j] # common_dir
    IN  SubSeq(parts, first, Len(parts))

\* ConfigManager._handle_external_file_matching from the i-th common
\* directory on; <<"None">> stands for None
RECURSIVE handle_external_file_matching(_, _, _)
handle_external_file_matching(file, per_file_ignores, i) ==
    IF ~file.in_temp \/ i > Len(common_dirs) THEN <<"None">>
    ELSE LET common_dir == common_dirs[i]
             subpath == join(from_first(file.parts, common_dir))
         IN  IF /\ \E k \in 1..Len(file.parts) : file.parts[k] = common_dir
                /\ collect_ignores(subpath, per_file_ignores) # {}
             THEN subpath
             ELSE handle_external_file_matching(file, per_file_ignores, i + 1)

\* ConfigManager._get_relative_path_for_matching; a file is relative,
\* absolute below the working directory (parts: its path from there), or
\* absolute elsewhere
get_relative_path_for_matching(file, per_file_ignores) ==
    IF file.place = "external"
    THEN handle_external_file_matching(file, per_file_ignores, 1)
    ELSE join(file.parts)

\* ConfigManager.get_file_specific_ignores
get_file_specific_ignores(file, per_file_ignores) ==
    IF DOMAIN per_file_ignores = {} THEN {}
    ELSE LET relative_path_str ==
                 get_relative_path_for_matching(file, per_file_ignores)
         IN  IF relative_path_str = <<"None">> THEN {}
             ELSE collect_ignores(relative_path_str, per_file_ignores)

is_rule_enabled_for_file_ignores_only(cfg, rule_id, file, per_file_ignores) ==
    ~matches_patterns(rule_id, get_file_specific_ignores(file, per_file_ignores))

\* ConfigManager.is_rule_enabled_for_file
is_rule_enabled_for_file(cfg, rule_id, file, per_file_ignores) ==
    IF ~is_rule_enabled(cfg, rule_id) THEN FALSE
    ELSE ~matches_patterns(rule_id,
                           get_file_specific_ignores(file, per_file_ignores))

FilePatterns ==
    {<<"tests", "/", "*", "*">>,
     <<"*", "*", "/", "conftest.py">>,
     <<"tests", "/", "unit", "/", "test_a.py">>,
     <<"docs", "/", "*">>}

\* the values of per_file_ignores: lists of rule ids or prefixes, one
\* string, or something that is neither
IgnoreValues ==
    {[type |-> "list", entries |-> {}],
     [type |-> "list", entries |-> {PTAS001, PTCM003}],
     [type |-> "list", entries |-> {Prefix(PTAS001, 4)}],
     [type |-> "str", entries |-> {PTCM003}],
     [type |-> "other", entries |-> {PTAS005}]}

PerFileIgnores ==
    UNION {[D -> IgnoreValues] :
              D \in {P \in SUBSET FilePatterns : Cardinality(P) <= MaxFilePatterns}}

FileParts ==
    {<<"tests", "unit", "test_a.py">>, <<"tests", "conftest.py">>,
     <<"docs", "index.py">>, <<"proj", "tests", "conftest.py">>,
     <<"proj", "main.py">>}

\* place: relative, cwd (absolute, below the working directory), external;
\* in_temp: the absolute path lies in a temporary directory
Files ==
    [place : {"relative", "cwd"}, in_temp : {FALSE}, parts : FileParts]
        \cup [place : {"external"}, in_temp : BOOLEAN, parts : FileParts]

InitFileIgnores ==
    /\ command = "none"
    /\ fileConfig = NoFile
    /\ raised = FALSE
    /\ events = <<>>
    /\ pending = <<>>
    /\ analyzed = <<>>
    /\ pc = "call"
    /\ \E sel \in {{}, {PTAS001}, {Prefix(PTCM003, 4)}}, ign \in {{}, {PTAS001}} :
           config = [EmptyConfig EXCEPT !.select = sel, !.ignore = ign]
    /\ arg \in [rule_id : {PTAS001, PTCM003, PTAS005}, file : Files,
                per_file_ignores : PerFileIgnores]
    /\ ret = Absent

IsRuleEnabledForFile ==
    /\ pc = "call"
    /\ pc' = "returned"
    /\ ret' = is_rule_enabled_for_file(config, arg.rule_id, arg.file,
                                       arg.per_file_ignores)
    /\ UNCHANGED <<arg, command, config, fileConfig, raised, events, pending,
                   analyzed>>

NextFileIgnores == IsRuleEnabledForFile

SpecFileIgnores == InitFileIgnores /\ [][NextFileIgnores]_vars

\* the path a pattern is matched against: the file's path from the project
\* root; an absolute path outside the project has none, unless it lies in a
\* temporary directory and, cut at its first common directory, some pattern
\* with ignore entries matches it
MatchedPath ==
    IF arg.file.place # "external" THEN join(arg.file.parts)
    ELSE LET cuts == {i \in 1..Len(common_dirs) :
                         /\ arg.file.in_temp
                         /\ \E k \in 1..Len(arg.file.parts) :
                                arg.file.parts[k] = common_dirs[i]
                         /\ \E pattern \in DOMAIN arg.per_file_ignores :
                                /\ fnmatch(join(from_first(arg.file.parts,
                                                           common_dirs[i])),
                                           pattern)
                                /\ arg.per_file_ignores[pattern].type # "other"
                                /\ arg.per_file_ignores[pattern].entries # {}}
         IN  IF cuts = {} THEN <<"None">>
             ELSE join(from_first(arg.file.parts,
                                  common_dirs[CHOOSE i \in cuts :
                                                  \A j \in cuts : i <= j]))

----------------------------------------------------------------------------
(* PTNM001 and the NamingChecker *)

\* What a call yields: the results it returns, or the exception it raises.
Return(results) == [raises |-> FALSE, error |-> "none", results |-> results]
Raise(error) == [raises |-> TRUE, error |-> error, results |-> <<>>]

\* A function name: whether it starts with "test_", and the code points of
\* the characters after that.
\* PTNM001._contains_japanese_characters: [぀-ゟ゠-ヿ一-龯]
contains_japanese_characters(name) ==
    \E i \in 1..Len(name.rest) :
        \/ name.rest[i] \in 12352..12447
        \/ name.rest[i] \in 12448..12543
        \/ name.rest[i] \in 19968..40879

\* BaseRule._create_failure_result called with the keyword severity=...: the
\* method has the parameters message, test_file, test_function, line_number
\* and column only, so the call raises TypeError
create_failure_result_with_severity(has_manager, cfg, rule_id, message, severity) ==
    Raise("TypeError")

\* PTNM001.check
PTNM001_check(name, cfg) ==
    IF ~name.starts_with_test
    THEN create_failure_result_with_severity(TRUE, cfg, PTNM001, "not a test function", "info")
    ELSE IF contains_japanese_characters(name)
         THEN create_failure_result_with_severity(TRUE, cfg, PTNM001, "japanese characters", "info")
         ELSE create_failure_result_with_severity(TRUE, cfg, PTNM001, "no japanese characters", "warning")

\* NamingChecker.check_function: results.extend(self.ptnm001.check(...))
naming_check_function(name, cfg) ==
    IF is_rule_enabled(cfg, PTNM001)
    THEN LET ptnm001_results == PTNM001_check(name, cfg)
         IN  IF ptnm001_results.raises THEN ptnm001_results
             ELSE Return(ptnm001_results.results)
    ELSE Return(<<>>)

\* code points: a, hiragana a, katakana a, the first and the last ideograph
\* the pattern holds, an ideograph of the same block past the pattern's end,
\* and a Hangul syllable
NameCodePoints == {97, 12354, 12450, 19968, 40879, 40880, 44032}

FunctionNames ==
    [starts_with_test : BOOLEAN,
     rest : UNION {[1..n -> NameCodePoints] : n \in 0..MaxNameLen}]

InitNaming ==
    /\ command = "none"
    /\ fileConfig = NoFile
    /\ raised = FALSE
    /\ events = <<>>
    /\ pending = <<>>
    /\ analyzed = <<>>
    /\ pc = "call"
    /\ \E ign \in {{}, {PTNM001}} : config = [EmptyConfig EXCEPT !.ignore = ign]
    /\ arg \in FunctionNames
    /\ ret = Absent

CheckPTNM001 ==
    /\ pc = "call"
    /\ pc' = "ptnm001_checked"
    /\ ret' = PTNM001_check(arg, config)
    /\ UNCHANGED <<arg, command, config, fileConfig, raised, events, pending,
                   analyzed>>

NamingCheckFunction ==
    /\ pc = "call"
    /\ pc' = "naming_checked"
    /\ ret' = naming_check_function(arg, config)
    /\ UNCHANGED <<arg, command, config, fileConfig, raised, events, pending,
                   analyzed>>

NextNaming == CheckPTNM001 \/ NamingCheckFunction

SpecNaming == InitNaming /\ [][NextNaming]_vars

\* the name holds a character of the Hiragana (3040-309F), Katakana
\* (30A0-30FF) or CJK Unified Ideographs (4E00-9FFF) block
HasJapaneseCharacter ==
    \E i \in 1..Len(arg.rest) :
        \/ arg.rest[i] \in 12352..12447
        \/ arg.rest[i] \in 12448..12543
        \/ arg.rest[i] \in 19968..40959

\* C14: for every function given to PTNM001 exactly one result is produced:
\* info when the name holds a Hiragana, Katakana or CJK Unified Ideographs
\* character, warning when a test_ name holds none, and a single skip result
\* when the name does not start with test_.
C14_ExactlyOneNamingResult ==
    pc = "ptnm001_checked" =>
        /\ ~ret.raises
        /\ Len(ret.results) = 1
        /\ (arg.starts_with_test /\ HasJapaneseCharacter)
               => ret.results[1].severity = "info"
        /\ (arg.starts_with_test /\ ~HasJapaneseCharacter)
               => ret.results[1].severity = "warning"

----------------------------------------------------------------------------
(* AssertDensityChecker._count_effective_lines on a file's lines *)

min(a, b) == IF a < b THEN a ELSE b

\* the loop of _count_effective_lines over range(i, stop), i and stop being
\* 0-based indexes into lines; yields the count and the indexes read
RECURSIVE effective_lines_loop(_, _, _, _)
effective_lines_loop(lines, i, stop, acc) ==
    IF i >= stop THEN acc
    ELSE LET line == strip(lines[i + 1])
             counted == line # <<>> /\ line[1] # "#"
         IN  effective_lines_loop(lines, i + 1, stop,
                 [effective_lines |-> acc.effective_lines + (IF counted THEN 1 ELSE 0),
                  read |-> acc.read \cup {i}])

\* the loop starting at the definition line, as ASTParser.find_comments does
effective_lines_from_start_line(lines, start_line, end_line) ==
    effective_lines_loop(lines, start_line, min(end_line, Len(lines)),
                         [effective_lines |-> 0, read |-> {}])

\* for i in range(start_line + 1, min(end_line, len(lines)))
effective_lines_in_range(lines, start_line, end_line) ==
    effective_lines_loop(lines, start_line + 1, min(end_line, Len(lines)),
                         [effective_lines |-> 0, read |-> {}])

\* AssertDensityChecker._count_effective_lines; end_lineno 0 stands for None
\* (both are false in "end_lineno or ...")
count_effective_lines_of_file(lines, lineno, end_lineno, body_len) ==
    LET start_line == lineno - 1
        end_line == IF end_lineno # 0 THEN end_lineno ELSE start_line + body_len
    IN  effective_lines_in_range(lines, start_line, end_line)

\* the lines a file is written from: a definition line, a statement, a
\* statement with a trailing comment, an indented comment, a comment at
\* column 0, a line of blanks and an empty line
FileLinePool ==
    {<<"def">>,
     <<" ", "x">>,
     <<" ", "x", " ", "#", "x">>,
     <<" ", "#", "x">>,
     <<"#", "x">>,
     <<" ">>,
     <<>>}

FileContents == UNION {[1..n -> FileLinePool] : n \in 1..MaxFileLines}

\* a function as ASTParser extracts it (end_lineno is set), placed anywhere in
\* the content, also ending past it as a hand-built TestFunction can
InitDensityLines ==
    /\ command = "none"
    /\ config = EmptyConfig
    /\ fileConfig = NoFile
    /\ raised = FALSE
    /\ events = <<>>
    /\ pending = <<>>
    /\ analyzed = <<>>
    /\ pc = "call"
    /\ \E lines \in FileContents :
       \E lineno \in 1..MaxFileLines :
       \E end_lineno \in lineno..(MaxFileLines + 1) :
           /\ lineno <= Len(lines)
           /\ lines[lineno] = <<"def">>
           /\ arg = [lines |-> lines, lineno |-> lineno,
                     end_lineno |-> end_lineno, body_len |-> 1]
    /\ ret = Absent

CountEffectiveLines ==
    /\ pc = "call"
    /\ pc' = "counted"
    /\ ret' = count_effective_lines_of_file(arg.lines, arg.lineno,
                                            arg.end_lineno, arg.body_len)
    /\ UNCHANGED <<arg, command, config, fileConfig, raised, events, pending,
                   analyzed>>

NextDensityLines == CountEffectiveLines

SpecDensityLines == InitDensityLines /\ [][NextDensityLines]_vars

\* line n (numbered from 1) of the content is neither blank nor a comment
IsCodeLine(n) ==
    \E k \in 1..Len(arg.lines[n]) :
        /\ arg.lines[n][k] # " "
        /\ arg.lines[n][k] # "#"
        /\ \A j \in 1..(k - 1) : arg.lines[n][j] = " "

\* C15: _count_effective_lines returns the number of lines from the line
\* after the definition line to the function's last line that are neither
\* blank nor comments; the definition line is never counted and no line past
\* the end of the file is read.
C15_CountsBodyCodeLines ==
    pc = "counted" =>
        /\ ret.effective_lines =
               Cardinality({n \in (arg.lineno + 1)..arg.end_lineno :
                               n <= Len(arg.lines) /\ IsCodeLine(n)})
        /\ \A i \in ret.read :
               /\ i + 1 <= Len(arg.lines)
               /\ i + 1 # arg.lineno
               /\ i + 1 \in (arg.lineno + 1)..arg.end_lineno
        /\ \A n \in (arg.lineno + 1)..min(arg.end_lineno, Len(arg.lines)) :
               (n - 1) \in ret.read

\* a function holding a comment or blank line whose last line is a statement,
\* followed by another statement outside it
C15_Witness ==
    /\ pc = "counted"
    /\ ret.effective_lines >= 1
    /\ arg.end_lineno < Len(arg.lines)
    /\ IsCodeLine(arg.end_lineno)
    /\ IsCodeLine(arg.end_lineno + 1)
    /\ \E n \in (arg.lineno + 1)..arg.end_lineno : ~IsCodeLine(n)

----------------------------------------------------------------------------
(* AnalyzeTestsUseCase.execute over registered checkers *)

\* CheckResult(...) as the use case, the checkers and the rules construct it;
\* a rule_id or function_name that is not passed is <<>> or "none"
CheckResult(checker_name, rule_id, severity, message, file_path, function_name) ==
    [checker_name |-> checker_name, rule_id |-> rule_id, severity |-> severity,
     message |-> message, file_path |-> file_path,
     function_name |-> function_name]

\* the name a rule is constructed with
RuleName(rule_id) ==
    CASE rule_id = PTAS001 -> "too_few_assertions"
      [] rule_id = PTAS002 -> "too_many_assertions"
      [] OTHER -> "rule"

\* BaseRule.check of a rule of a RuleBasedChecker: what it does on a function
\* is the function's outcome for it: a success verdict, a failure verdict,
\* no result, or an unexpected exception
rule_check(rule_id, outcome, test_function, test_file, cfg) ==
    CASE outcome = "raise" -> Raise("Exception")
      [] outcome = "empty" -> Return(<<>>)
      [] outcome = "success" ->
            LET r == create_success_result(TRUE, cfg, rule_id, <<"success">>)
            IN  Return(<<CheckResult(RuleName(rule_id), r.rule_id, r.severity,
                                     r.message, test_file.path,
                                     test_function.name)>>)
      [] OTHER ->
            LET r == create_failure_result(TRUE, cfg, rule_id, <<"failure">>)
            IN  Return(<<CheckResult(RuleName(rule_id), r.rule_id, r.severity,
                                     r.message, test_file.path,
                                     test_function.name)>>)

\* RuleBasedChecker.check_function: the loop over self.rules from rule i on;
\* an exception of a rule is raised again as CheckerError("rule_<id>", e)
RECURSIVE rule_based_check_function(_, _, _, _, _, _)
rule_based_check_function(rules, i, test_function, test_file, cfg, results) ==
    IF i > Len(rules) THEN Return(results)
    ELSE LET rule_results == rule_check(rules[i], test_function.outcomes[i],
                                        test_function, test_file, cfg)
         IN  IF rule_results.raises
             THEN [raises |-> TRUE, error |-> <<"CheckerError", rules[i]>>,
                   results |-> <<>>]
             ELSE rule_based_check_function(rules, i + 1, test_function,
                      test_file, cfg, results \o rule_results.results)

\* AAAPatternChecker._check_comment_pattern
check_comment_pattern(test_function, test_file) ==
    IF test_function.comments \in {"AAA", "GWT"}
    THEN <<CheckResult("aaa_pattern",
                       IF test_function.comments = "AAA" THEN PTCM001 ELSE PTCM002,
                       "info", <<"pattern detected in comments">>,
                       test_file.path, test_function.name)>>
    ELSE <<>>

\* AAAPatternChecker._check_structural_pattern
check_structural_pattern(test_function, test_file) ==
    IF test_function.structural
    THEN <<CheckResult("aaa_pattern", PTST001, "info",
                       <<"pattern detected through structural separation">>,
                       test_file.path, test_function.name)>>
    ELSE <<>>

\* AAAPatternChecker._check_logical_pattern
check_logical_pattern(test_function, test_file) ==
    IF test_function.logical
    THEN <<CheckResult("aaa_pattern", PTLG001, "info",
                       <<"pattern detected through code flow analysis">>,
                       test_file.path, test_function.name)>>
    ELSE <<>>

\* check_function appending the PTST002 warning whatever the detectors found
aaa_check_function_always_warning(test_function, test_file) ==
    LET results == check_comment_pattern(test_function, test_file)
                   \o check_structural_pattern(test_function, test_file)
                   \o check_logical_pattern(test_function, test_file)
    IN  Return(Append(results,
                      CheckResult("aaa_pattern", PTST002, "warning",
                                  <<"pattern not clearly detected">>,
                                  test_file.path, test_function.name)))

\* AAAPatternChecker.check_function
aaa_check_function(test_function, test_file) ==
    LET results == check_comment_pattern(test_function, test_file)
                   \o check_structural_pattern(test_function, test_file)
                   \o check_logical_pattern(test_function, test_file)
    IN  IF results = <<>>
        THEN Return(<<CheckResult("aaa_pattern", PTST002, "warning",
                                  <<"pattern not clearly detected">>,
                                  test_file.path, test_function.name)>>)
        ELSE Return(results)

\* checker.check_function
check_function(checker, test_function, test_file, cfg) ==
    IF checker.name = "aaa_pattern"
    THEN aaa_check_function(test_function, test_file)
    ELSE rule_based_check_function(checker.rules, 1, test_function, test_file,
                                   cfg, <<>>)

\* BaseChecker.check: the loop over test_file.test_functions from function j
\* on; an exception of check_function is not caught here
RECURSIVE base_checker_check(_, _, _, _, _)
base_checker_check(checker, j, test_file, cfg, results) ==
    IF j > Len(test_file.test_functions) THEN Return(results)
    ELSE LET function_results ==
                 check_function(checker, test_file.test_functions[j],
                                test_file, cfg)
         IN  IF function_results.raises THEN function_results
             ELSE base_checker_check(checker, j + 1, test_file, cfg,
                                     results \o function_results.results)

\* the checkers registered with the CheckerRegistry, in registration order
RegisteredCheckers ==
    <<[name |-> "assertion", rules |-> <<PTAS001, PTAS002>>],
      [name |-> "aaa_pattern", rules |-> <<>>]>>

\* CheckerRegistry.get_enabled_checkers
get_enabled_checkers(cfg) ==
    SelectSeq(RegisteredCheckers, LAMBDA checker : cfg.enabled[checker.name])

\* _analyze_test_file: the loop over the enabled checkers from checker c on
RECURSIVE analyze_checkers(_, _, _, _, _)
analyze_checkers(enabled_checkers, c, test_file, cfg, results) ==
    IF c > Len(enabled_checkers) THEN results
    ELSE LET checker == enabled_checkers[c]
             checker_results == base_checker_check(checker, 1, test_file, cfg, <<>>)
         IN  IF checker_results.raises
             THEN analyze_checkers(enabled_checkers, c + 1, test_file, cfg,
                      Append(results,
                             CheckResult(checker.name, <<>>, "error",
                                         <<"Checker failed">> \o checker_results.error,
                                         test_file.path, "none")))
             ELSE analyze_checkers(enabled_checkers, c + 1, test_file, cfg,
                                   results \o checker_results.results)

\* AnalyzeTestsUseCase._analyze_test_file
analyze_test_file(test_file, cfg) ==
    analyze_checkers(get_enabled_checkers(cfg), 1, test_file, cfg, <<>>)

\* the except branch of execute's loop, with the results of the earlier
\* files lost
execute_file_forgetting(all_results, total_tests, test_file, cfg) ==
    IF test_file.parses
    THEN [all_results |-> all_results \o analyze_test_file(test_file, cfg),
          total_tests |-> total_tests + Len(test_file.test_functions)]
    ELSE [all_results |->
              <<CheckResult("file_parser", <<>>, "error",
                            <<"Failed to parse file">>, test_file.path, "none")>>,
          total_tests |-> total_tests]

\* execute: the body of the loop over test_file_paths
execute_file(all_results, total_tests, test_file, cfg) ==
    IF test_file.parses
    THEN [all_results |-> all_results \o analyze_test_file(test_file, cfg),
          total_tests |-> total_tests + Len(test_file.test_functions)]
    ELSE [all_results |->
              Append(all_results,
                     CheckResult("file_parser", <<>>, "error",
                                 <<"Failed to parse file">>, test_file.path, "none")),
          total_tests |-> total_tests]

\* AnalyzeTestsUseCase._count_results
count_results(results) ==
    LET passed == Cardinality({i \in 1..Len(results) : results[i].severity = "info"})
    IN  [passed |-> passed, failed |-> Len(results) - passed]

AnalysisResult(total_files, total_tests, passed_checks, failed_checks, check_results) ==
    [total_files |-> total_files, total_tests |-> total_tests,
     passed_checks |-> passed_checks, failed_checks |-> failed_checks,
     check_results |-> check_results]

\* a test function: its name, what the two rules of the assertion checker do
\* on it, and the patterns the AAA checker finds in it
Fn(name, o1, o2, comments, structural, logical) ==
    [name |-> name, outcomes |-> <<o1, o2>>, comments |-> comments,
     structural |-> structural, logical |-> logical]

\* the files a run is made of: one that cannot be parsed, one without test
\* functions, and files of one or two functions
FileContentPool ==
    {[parses |-> FALSE, test_functions |-> <<>>],
     [parses |-> TRUE, test_functions |-> <<>>],
     [parses |-> TRUE, test_functions |->
         <<Fn("test_a", "success", "empty", "AAA", FALSE, FALSE)>>],
     [parses |-> TRUE, test_functions |->
         <<Fn("test_a", "failure", "empty", "none", FALSE, FALSE),
           Fn("test_b", "success", "success", "GWT", TRUE, TRUE)>>],
     [parses |-> TRUE, test_functions |->
         <<Fn("test_a", "raise", "success", "AAA", FALSE, FALSE),
           Fn("test_b", "success", "failure", "none", FALSE, FALSE)>>],
     [parses |-> TRUE, test_functions |->
         <<Fn("test_a", "success", "empty", "none", TRUE, FALSE),
           Fn("test_b", "failure", "raise", "none", FALSE, TRUE)>>]}

\* the configurations of a run: which checkers are enabled, and the severity
\* configured for PTAS001
RunConfigs ==
    {[select |-> {}, ignore |-> {}, severity |-> sev, overrides |-> {},
      enabled |-> en] :
        sev \in {<<>>} \cup [{PTAS001} -> {"info", "warning"}],
        en \in [{"assertion", "aaa_pattern"} -> BOOLEAN]}

InitAnalyze ==
    /\ command = "none"
    /\ config \in RunConfigs
    /\ fileConfig = NoFile
    /\ raised = FALSE
    /\ events = <<>>
    /\ pending = <<>>
    /\ analyzed = <<>>
    /\ pc = "execute"
    /\ arg = [test_file_paths |-> <<>>, all_results |-> <<>>, total_tests |-> 0]
    /\ ret = Absent

\* execute: find_test_files, and the early return when there is no file
ExecuteFindTestFiles ==
    /\ pc = "execute"
    /\ \E n \in 0..MaxRunFiles :
       \E contents \in [1..n -> FileContentPool] :
           LET paths == [k \in 1..n |->
                            [path |-> k, parses |-> contents[k].parses,
                             test_functions |-> contents[k].test_functions]]
           IN  /\ arg' = [arg EXCEPT !.test_file_paths = paths]
               /\ pending' = paths
               /\ pc' = IF n = 0 THEN "returned" ELSE "loop"
               /\ ret' = IF n = 0 THEN AnalysisResult(0, 0, 0, 0, <<>>) ELSE ret
    /\ UNCHANGED <<command, config, fileConfig, raised, events, analyzed>>

\* execute: one iteration of the loop over test_file_paths
ExecuteFile ==
    /\ pc = "loop"
    /\ pending # <<>>
    /\ LET step == execute_file(arg.all_results, arg.total_tests,
                                Head(pending), config)
       IN  arg' = [arg EXCEPT !.all_results = step.all_results,
                              !.total_tests = step.total_tests]
    /\ pending' = Tail(pending)
    /\ UNCHANGED <<pc, command, config, fileConfig, raised, events, analyzed, ret>>

\* execute: _count_results and the AnalysisResult returned
ExecuteReturn ==
    /\ pc = "loop"
    /\ pending = <<>>
    /\ pc' = "returned"
    /\ LET counts == count_results(arg.all_results)
       IN  ret' = AnalysisResult(Len(arg.test_file_paths), arg.total_tests,
                                 counts.passed, counts.failed, arg.all_results)
    /\ UNCHANGED <<command, config, fileConfig, raised, events, pending,
                   analyzed, arg>>

NextAnalyze == ExecuteFindTestFiles \/ ExecuteFile \/ ExecuteReturn

SpecAnalyze == InitAnalyze /\ [][NextAnalyze]_vars

\* the files execute has been through
Processed ==
    SubSeq(arg.test_file_paths, 1, Len(arg.test_file_paths) - Len(pending))

\* the indexes of the results recorded for a file
ResultsOf(path) ==
    {i \in 1..Len(arg.all_results) : arg.all_results[i].file_path = path}

\* the results recorded for a file, in order
ResultSeqOf(path) ==
    SelectSeq(arg.all_results, LAMBDA r : r.file_path = path)

AssertionRules == RegisteredCheckers[1].rules

\* C16: when a single rule throws while evaluating a function, one
\* error-severity result naming the failing rule is recorded, and the sibling
\* rules of that function and the other functions of the file still produce
\* their results.
C16_RuleFailureRecoveredPerRule ==
    (pc = "returned" /\ config.enabled["assertion"]) =>
        \A k \in 1..Len(arg.test_file_paths) :
            LET file == arg.test_file_paths[k]
                fns == file.test_functions
                throws(j, i) == fns[j].outcomes[i] = "raise"
                produced(j, i) ==
                    \E n \in ResultsOf(file.path) :
                        /\ arg.all_results[n].rule_id = AssertionRules[i]
                        /\ arg.all_results[n].function_name = fns[j].name
            IN  \A j \in 1..Len(fns) : \A i \in 1..Len(AssertionRules) :
                    throws(j, i) =>
                        /\ Cardinality(
                               {n \in ResultsOf(file.path) :
                                   /\ arg.all_results[n].severity = "error"
                                   /\ Len(arg.all_results[n].message) = 3
                                   /\ arg.all_results[n].message[3] = AssertionRules[i]}) = 1
                        /\ \A j2 \in 1..Len(fns) : \A i2 \in 1..Len(AssertionRules) :
                               fns[j2].outcomes[i2] \in {"success", "failure"}
                                   => produced(j2, i2)

\* C17: when loading or parsing one file fails, exactly one error-severity
\* result with checker name file_parser and that file's path is recorded, the
\* remaining files are still analyzed, and the results already collected from
\* earlier files are kept.
C17_ParseFailureRecoveredPerFile ==
    /\ pc = "returned" => pending = <<>>
    /\ pc \in {"loop", "returned"} =>
           \A k \in 1..Len(Processed) :
               LET file == Processed[k]
               IN  IF file.parses
                   THEN ResultSeqOf(file.path) = analyze_test_file(file, config)
                   ELSE /\ Cardinality(ResultsOf(file.path)) = 1
                        /\ \A n \in ResultsOf(file.path) :
                               /\ arg.all_results[n].checker_name = "file_parser"
                               /\ arg.all_results[n].severity = "error"

\* a run of three files, the second of which cannot be parsed, that returns
\* results of the first and of the third
C17_Witness ==
    /\ pc = "returned"
    /\ Len(arg.test_file_paths) = 3
    /\ ~arg.test_file_paths[2].parses
    /\ \E n \in ResultsOf(1) : arg.all_results[n].checker_name # "file_parser"
    /\ \E n \in ResultsOf(3) : arg.all_results[n].checker_name # "file_parser"
    /\ Cardinality(ResultsOf(2)) = 1

\* a result that records a failure: a rule's failure verdict, a parse
\* failure or a checker failure
IsRecordedFailure(result) ==
    result.message[1] \in {"failure", "pattern not clearly detected",
                           "Failed to parse file", "Checker failed"}

\* C18: in every AnalysisResult returned by execute, passed_checks +
\* failed_checks is the number of check_results, and every recorded failure
\* (failure verdict, parse failure, checker failure) is counted once in
\* failed_checks and never in passed_checks.
C18_FailuresCountedAsFailed ==
    pc = "returned" =>
        LET failures == {n \in 1..Len(ret.check_results) :
                            IsRecordedFailure(ret.check_results[n])}
        IN  /\ ret.passed_checks + ret.failed_checks = Len(ret.check_results)
            /\ ret.failed_checks >= Cardinality(failures)
            /\ ret.passed_checks <= Len(ret.check_results) - Cardinality(failures)

\* the position of a function in its file
FunctionIndex(file, name) ==
    CHOOSE j \in 1..Len(file.test_functions) : file.test_functions[j].name = name

\* C19: the results of one file are contiguous in the result list and,
\* within the file, grouped by function in the file's function order.
C19_GroupedByFileAndFunction ==
    pc = "returned" =>
        LET results == ret.check_results
            of_function(n) == results[n].function_name # "none"
        IN  \A a \in 1..Len(results) : \A b \in a..Len(results) :
                /\ results[a].file_path <= results[b].file_path
                /\ ( /\ results[a].file_path = results[b].file_path
                     /\ of_function(a) /\ of_function(b) )
                   => LET file == arg.test_file_paths[results[a].file_path]
                      IN  FunctionIndex(file, results[a].function_name)
                              <= FunctionIndex(file, results[b].function_name)

\* C20: every CheckResult of a run carries the rule id of a registered rule,
\* the results recorded for parse failures and checker failures included.
C20_RuleIdOfARegisteredRule ==
    pc = "returned" =>
        \A n \in 1..Len(ret.check_results) :
            ret.check_results[n].rule_id \in RegistryRules

----------------------------------------------------------------------------
(* EdgeCaseAnalyzer *)

\* Python values as the analyzer tells them apart: the type, the number (or
\* the length of a string or collection), the text of a string, and whether a
\* string holds \n, \t or \r, or a character above 127
Value(type, n, text, special, unicode) ==
    [type |-> type, n |-> n, text |-> text, special |-> special,
     unicode |-> unicode]

NoValue == Value("absent", 0, "", FALSE, FALSE)
IntValue(n) == Value("int", n, "", FALSE, FALSE)
StrValue(text, len) == Value("str", len, text, FALSE, FALSE)
ListValue(len) == Value("list", len, "", FALSE, FALSE)
NoneValue == Value("none", 0, "", FALSE, FALSE)

\* ast nodes: the class, the identifier (Name.id, Attribute.attr), the value
\* of a Constant and the child nodes in ast.iter_child_nodes order (for a
\* Call: func, then the arguments)
Node(kind, id, value, children) ==
    [kind |-> kind, id |-> id, value |-> value, children |-> children]

Name(id) == Node("Name", id, NoValue, <<>>)
Constant(value) == Node("Constant", "", value, <<>>)
Attribute(value, attr) == Node("Attribute", attr, NoValue, <<value>>)
Call(func, args) == Node("Call", "", NoValue, <<func>> \o args)
ListNode(elts) == Node("List", "", NoValue, elts)
Stmt(kind, children) == Node(kind, "", NoValue, children)

\* f"float('{attr}')" and f"{id}()", f"{id}(0)"
FormatCall(id, argument) ==
    CASE id = "inf" -> StrValue("float('inf')", 12)
      [] id = "-inf" -> StrValue("float('-inf')", 13)
      [] id = "list" /\ argument = "" -> StrValue("list()", 6)
      [] id = "dict" /\ argument = "" -> StrValue("dict()", 6)
      [] id = "set" /\ argument = "" -> StrValue("set()", 5)
      [] id = "range" /\ argument = "" -> StrValue("range()", 7)
      [] id = "list" -> StrValue("list(0)", 7)
      [] id = "dict" -> StrValue("dict(0)", 7)
      [] id = "set" -> StrValue("set(0)", 6)
      [] OTHER -> StrValue("range(0)", 8)

\* EdgeCaseAnalyzer._extract_edge_case_calls
extract_edge_case_calls(node) ==
    LET func == node.children[1]
        args == Tail(node.children)
    IN  IF func.kind = "Attribute"
        THEN IF /\ func.children[1].kind = "Name"
                /\ func.children[1].id = "float"
                /\ func.id \in {"inf", "-inf"}
             THEN <<FormatCall(func.id, "")>>
             ELSE <<>>
        ELSE IF func.kind = "Name" /\ func.id \in {"range", "list", "dict", "set"}
             THEN IF args = <<>>
                  THEN <<FormatCall(func.id, "")>>
                  ELSE IF /\ Len(args) = 1
                          /\ args[1].kind = "Constant"
                          /\ args[1].value.type = "int"
                          /\ args[1].value.n = 0
                       THEN <<FormatCall(func.id, "0")>>
                       ELSE <<>>
             ELSE <<>>

\* EdgeCaseAnalyzer._extract_values_from_node, and its loop over the child
\* nodes
RECURSIVE extract_values_from_node(_)
RECURSIVE extract_values_from_children(_)
extract_values_from_node(node) ==
    LET own ==
            CASE node.kind = "Constant" -> <<node.value>>
              [] node.kind = "List" ->
                    <<ListValue(Len(SelectSeq(node.children,
                                     LAMBDA elt : elt.kind = "Constant")))>>
              [] node.kind = "Call" -> extract_edge_case_calls(node)
              [] node.kind = "Name" ->
                    IF node.id \in {"None", "inf", "maxsize"}
                    THEN <<StrValue(node.id, 4)>> ELSE <<>>
              [] OTHER -> <<>>
    IN  own \o extract_values_from_children(node.children)

extract_values_from_children(children) ==
    IF children = <<>> THEN <<>>
    ELSE extract_values_from_node(children[1])
             \o extract_values_from_children(Tail(children))

\* EdgeCaseAnalyzer._extract_test_values
extract_test_values(body) == extract_values_from_children(body)

\* EdgeCaseAnalyzer._classify_value: the if / elif chain in its order
classify_value(value) ==
    IF value.type \in {"int", "float"}
    THEN IF value.n = 0 THEN <<"numeric_zero">>
         ELSE IF value.n < 0 THEN <<"numeric_negative">>
         ELSE IF value.n > 1000000 THEN <<"numeric_max_min">>
         ELSE <<>>
    ELSE IF value.type \in {"list", "tuple", "set", "dict"}
    THEN IF value.n = 0 THEN <<"collection_empty">>
         ELSE IF value.n = 1 THEN <<"collection_single">>
         ELSE IF value.n > 1000 THEN <<"collection_large">>
         ELSE <<>>
    ELSE IF value.type = "str"
    THEN IF value.n = 0 THEN <<"string_empty">>
         ELSE IF value.special THEN <<"string_special_chars">>
         ELSE IF value.unicode THEN <<"string_unicode">>
         ELSE IF value.n > 1000 THEN <<"string_long">>
         ELSE <<>>
    ELSE IF value.type = "none" \/ (value.type = "str" /\ value.text = "None")
    THEN <<"string_none">>
    ELSE IF value.type = "str"
    THEN IF value.text \in {"sys.maxsize", "float('inf')", "float('-inf')",
                            "math.inf", "-math.inf"}
         THEN <<"numeric_max_min">>
         ELSE IF value.text \in {"[]", "{}", "set()"}
         THEN <<"collection_empty">>
         ELSE <<>>
    ELSE <<>>

\* EdgeCaseAnalyzer.calculate_edge_case_ratio
calculate_edge_case_ratio(body) ==
    LET test_values == extract_test_values(body)
        edge == {i \in 1..Len(test_values) : classify_value(test_values[i]) # <<>>}
    IN  [normal_count |-> Len(test_values) - Cardinality(edge),
         edge_case_count |-> Cardinality(edge)]

\* EdgeCaseAnalyzer.analyze_test_values: the edge case types found
analyze_test_values(body) ==
    LET test_values == extract_test_values(body)
    IN  UNION {{classify_value(test_values[i])[k] :
                    k \in 1..Len(classify_value(test_values[i]))} :
                i \in 1..Len(test_values)}

\* get_missing_numeric / collection / string_edge_cases
get_missing_edge_cases(kind, body) ==
    LET edge_types ==
            CASE kind = "numeric" ->
                    <<"numeric_zero", "numeric_negative", "numeric_max_min">>
              [] kind = "collection" ->
                    <<"collection_empty", "collection_single", "collection_large">>
              [] OTHER ->
                    <<"string_none", "string_empty", "string_special_chars",
                      "string_unicode", "string_long">>
    IN  SelectSeq(edge_types, LAMBDA t : t \notin analyze_test_values(body))

----------------------------------------------------------------------------
(* PTEC001, PTEC002, PTEC003 *)

\* ast.walk over the statements of a body: every node below them
RECURSIVE walk(_)
walk(nodes) ==
    IF nodes = <<>> THEN {}
    ELSE {nodes[1]} \cup walk(nodes[1].children) \cup walk(Tail(nodes))

\* any(indicator in node.id.lower() for indicator in indicators), for the
\* identifiers used here, which hold an indicator only when they are one
contains_indicator(id, indicators) == id \in indicators

IsCallOf(node, names) ==
    /\ node.kind = "Call"
    /\ node.children[1].kind = "Name"
    /\ node.children[1].id \in names

IsMethodCall(node, attrs) ==
    /\ node.kind = "Call"
    /\ node.children[1].kind = "Attribute"
    /\ node.children[1].id \in attrs

\* PTEC001._has_numeric_operations
has_numeric_operations(body) ==
    \E node \in walk(body) :
        \/ node.kind = "Constant" /\ node.value.type \in {"int", "float"}
        \/ node.kind \in {"Add", "Sub", "Mult", "Div", "Mod", "Pow"}
        \/ IsCallOf(node, {"int", "float", "abs", "min", "max", "sum", "len"})
        \/ /\ node.kind = "Call"
           /\ node.children[1].kind = "Attribute"
           /\ node.children[1].children[1].kind = "Name"
           /\ node.children[1].children[1].id = "math"
        \/ /\ node.kind = "Name"
           /\ contains_indicator(node.id,
                  {"count", "size", "length", "total", "sum", "average", "min",
                   "max", "value", "number", "amount", "quantity", "index", "id"})

\* PTEC002._has_collection_operations
has_collection_operations(body) ==
    \E node \in walk(body) :
        \/ node.kind \in {"List", "Dict", "Set", "Tuple"}
        \/ IsCallOf(node, {"list", "dict", "set", "tuple", "len", "range",
                           "sorted", "reversed", "filter", "map", "zip"})
        \/ IsMethodCall(node, {"append", "extend", "insert", "remove", "pop",
                               "clear", "keys", "values", "items", "get",
                               "update", "add", "discard", "union",
                               "intersection"})
        \/ node.kind \in {"Subscript", "For", "ListComp", "DictComp", "SetComp",
                          "In", "NotIn"}
        \/ /\ node.kind = "Name"
           /\ contains_indicator(node.id,
                  {"list", "array", "items", "elements", "data", "collection",
                   "queue", "stack", "dict", "map", "set", "tuple", "records"})

\* PTEC003._has_string_operations
has_string_operations(body) ==
    \E node \in walk(body) :
        \/ node.kind = "Constant" /\ node.value.type = "str"
        \/ IsCallOf(node, {"str", "len", "ord", "chr", "format", "print",
                           "input", "open"})
        \/ IsMethodCall(node, {"strip", "split", "join", "replace", "find",
                               "index", "upper", "lower", "title", "capitalize",
                               "startswith", "endswith", "isdigit", "isalpha",
                               "isalnum", "encode", "decode", "format", "ljust",
                               "rjust", "center"})
        \/ node.kind \in {"Mod", "JoinedStr"}
        \/ /\ node.kind = "Name"
           /\ contains_indicator(node.id,
                  {"text", "message", "content", "string", "str", "name",
                   "title", "description", "path", "url", "email", "word",
                   "sentence", "paragraph", "document", "filename", "data"})

has_operations(kind, body) ==
    CASE kind = "numeric" -> has_numeric_operations(body)
      [] kind = "collection" -> has_collection_operations(body)
      [] OTHER -> has_string_operations(body)

PTEC(kind) ==
    CASE kind = "numeric" -> PTEC001
      [] kind = "collection" -> PTEC002
      [] OTHER -> PTEC003

MinEdgeCasesKey(kind) ==
    CASE kind = "numeric" -> "min_numeric_edge_cases"
      [] kind = "collection" -> "min_collection_edge_cases"
      [] OTHER -> "min_string_edge_cases"

\* check without the test for operations of the rule's kind
ptec_check_without_skip(kind, body, cc, cfg) ==
    LET missing_edge_cases == get_missing_edge_cases(kind, body)
        min_edge_cases == get_config_value(cc, MinEdgeCasesKey(kind), 1)
    IN  IF Len(missing_edge_cases) = 0
        THEN create_success_result(TRUE, cfg, PTEC(kind), "covered")
        ELSE IF Len(missing_edge_cases) >= min_edge_cases
             THEN create_failure_result(TRUE, cfg, PTEC(kind), "missing")
             ELSE create_success_result(TRUE, cfg, PTEC(kind), "sufficient")

\* PTEC001.check, PTEC002.check, PTEC003.check
ptec_check(kind, body, cc, cfg) ==
    LET missing_edge_cases == get_missing_edge_cases(kind, body)
        min_edge_cases == get_config_value(cc, MinEdgeCasesKey(kind), 1)
    IN  IF ~has_operations(kind, body)
        THEN create_success_result(TRUE, cfg, PTEC(kind), "skipped")
        ELSE IF Len(missing_edge_cases) = 0
        THEN create_success_result(TRUE, cfg, PTEC(kind), "covered")
        ELSE IF Len(missing_edge_cases) >= min_edge_cases
             THEN create_failure_result(TRUE, cfg, PTEC(kind), "missing")
             ELSE create_success_result(TRUE, cfg, PTEC(kind), "sufficient")

\* the statements test functions are written from:
\*   assert result, obj.run(), list(), set(), float('inf'), float.inf(),
\*   0, 5, "", [], range(0)
StatementPool ==
    {Stmt("Assert", <<Name("result")>>),
     Stmt("Expr", <<Call(Attribute(Name("obj"), "run"), <<>>)>>),
     Stmt("Expr", <<Call(Name("list"), <<>>)>>),
     Stmt("Expr", <<Call(Name("set"), <<>>)>>),
     Stmt("Expr", <<Call(Name("float"), <<Constant(StrValue("inf", 3))>>)>>),
     Stmt("Expr", <<Call(Attribute(Name("float"), "inf"), <<>>)>>),
     Stmt("Expr", <<Constant(IntValue(0))>>),
     Stmt("Expr", <<Constant(IntValue(5))>>),
     Stmt("Expr", <<Constant(StrValue("", 0))>>),
     Stmt("Expr", <<ListNode(<<>>)>>),
     Stmt("Expr", <<Call(Name("range"), <<Constant(IntValue(0))>>)>>)}

StatementBodies == UNION {[1..n -> StatementPool] : n \in 1..MaxStatements}

EdgeCaseKeys ==
    {"min_numeric_edge_cases", "min_collection_edge_cases", "min_string_edge_cases"}

\* CheckerConfig.config of the edge case rules
EdgeCaseConfigs ==
    {[keys |-> k, min_numeric_edge_cases |-> m, min_collection_edge_cases |-> m,
      min_string_edge_cases |-> m] :
        k \in {{}, EdgeCaseKeys}, m \in {0, 2, 4}}

InitEdgeCase ==
    /\ command = "none"
    /\ fileConfig = NoFile
    /\ raised = FALSE
    /\ events = <<>>
    /\ pending = <<>>
    /\ analyzed = <<>>
    /\ pc = "call"
    /\ \E sev \in {<<>>} \cup [{PTEC001, PTEC002, PTEC003} -> {"warning"}] :
           config = [EmptyConfig EXCEPT !.severity = sev]
    /\ \E body \in StatementBodies : \E cc \in EdgeCaseConfigs :
           /\ (cc.keys = {} => cc.min_numeric_edge_cases = 0)
           /\ arg = [body |-> body, cc |-> cc]
    /\ ret = Absent

CheckPTEC ==
    /\ pc = "call"
    /\ pc' = "ptec_checked"
    /\ \E kind \in {"numeric", "collection", "string"} :
           ret' = [kind |-> kind,
                   result |-> ptec_check(kind, arg.body, arg.cc, config)]
    /\ UNCHANGED <<arg, command, config, fileConfig, raised, events, pending,
                   analyzed>>

CalculateEdgeCaseRatio ==
    /\ pc = "call"
    /\ pc' = "ratio_calculated"
    /\ ret' = calculate_edge_case_ratio(arg.body)
    /\ UNCHANGED <<arg, command, config, fileConfig, raised, events, pending,
                   analyzed>>

NextEdgeCase == CheckPTEC \/ CalculateEdgeCaseRatio

SpecEdgeCase == InitEdgeCase /\ [][NextEdgeCase]_vars

\* C21: when no operation of the rule's kind is detected in the function,
\* PTEC001, PTEC002 and PTEC003 return a success (info) "skipped" result and
\* never a failure, whatever is missing and whatever the minimum is.
C21_NoOperationIsSkipped ==
    (pc = "ptec_checked" /\ ~has_operations(ret.kind, arg.body)) =>
        /\ ret.result.severity = "info"
        /\ ret.result.message = "skipped"
        /\ ret.result.rule_id = PTEC(ret.kind)

\* a function without numeric operations that misses every numeric edge
\* case, under a minimum that would make the rule fail, is skipped
C21_Witness ==
    /\ pc = "ptec_checked"
    /\ ret.kind = "numeric"
    /\ ~has_numeric_operations(arg.body)
    /\ Len(get_missing_edge_cases("numeric", arg.body)) = 3
    /\ get_config_value(arg.cc, "min_numeric_edge_cases", 1) <= 3
    /\ get_rule_severity(config, PTEC001) = "warning"
    /\ ret.result.message = "skipped"

\* the values _extract_edge_case_calls yields for the calls of a body
EdgeCaseCallValues ==
    UNION {{extract_edge_case_calls(node)[k] :
                k \in 1..Len(extract_edge_case_calls(node))} :
            node \in {n \in walk(arg.body) : n.kind = "Call"}}

\* C28: every value extracted from an edge-case-producing call pattern
\* (float('inf'), list(), dict(), set(), range()) is classified into an edge
\* case category and counted as an edge case, not as a normal value.
C28_EdgeCaseCallsAreEdgeCases ==
    pc = "ratio_calculated" =>
        /\ \A value \in EdgeCaseCallValues : classify_value(value) # <<>>
        /\ EdgeCaseCallValues # {} => ret.edge_case_count >= 1

----------------------------------------------------------------------------
(* AnalysisResult.success_rate *)

\* float values as exact fractions num / den, den > 0
Fraction(num, den) == [num |-> num, den |-> den]

\* a / b and x * k on them
TrueDiv(a, b) == Fraction(a, b)
Times(x, k) == Fraction(x.num * k, x.den)

\* success_rate without the test for zero checks: no check passed
success_rate_zero_when_empty(passed_checks, failed_checks) ==
    LET total == passed_checks + failed_checks
    IN  IF total = 0 THEN Fraction(0, 1)
        ELSE Times(TrueDiv(passed_checks, total), 100)

\* AnalysisResult.success_rate
success_rate(passed_checks, failed_checks) ==
    LET total == passed_checks + failed_checks
    IN  IF total = 0 THEN Fraction(100, 1)
        ELSE Times(TrueDiv(passed_checks, total), 100)

InitSuccessRate ==
    /\ Idle
    /\ pc = "call"
    /\ arg \in [passed_checks : 0..MaxChecks, failed_checks : 0..MaxChecks]
    /\ ret = Absent

SuccessRate ==
    /\ pc = "call"
    /\ pc' = "rated"
    /\ ret' = success_rate(arg.passed_checks, arg.failed_checks)
    /\ IdleUnchanged
    /\ UNCHANGED arg

NextSuccessRate == SuccessRate

SpecSuccessRate == InitSuccessRate /\ [][NextSuccessRate]_vars

\* the fraction equals the integer k
IsNumber(x, k) == x.num = k * x.den

\* C22: success_rate is 100 when passed_checks + failed_checks is 0, and
\* otherwise passed_checks / (passed_checks + failed_checks) x 100 (75 for 3
\* passed and 1 failed); for non-negative counts it lies between 0 and 100.
C22_SuccessRate ==
    pc = "rated" =>
        LET total == arg.passed_checks + arg.failed_checks
        IN  /\ ret.den > 0
            /\ total = 0 => IsNumber(ret, 100)
            /\ total # 0 => ret.num * total = 100 * arg.passed_checks * ret.den
            /\ (arg.passed_checks = 3 /\ arg.failed_checks = 1) => IsNumber(ret, 75)
            /\ 0 <= ret.num
            /\ ret.num <= 100 * ret.den

\* the rate of no check at all
C22_Witness ==
    /\ pc = "rated"
    /\ arg.passed_checks = 0
    /\ arg.failed_checks = 0
    /\ IsNumber(ret, 100)

----------------------------------------------------------------------------
(* The logical-flow detectors: PTLG001 and AAAPatternChecker *)

\* the statements _categorize_statements tells apart: an assert, an
\* assignment, an expression statement that is a call, anything else
StatementKinds == {"Assert", "Assign", "ExprCall", "Pass"}

EmptySections == [arrange |-> <<>>, act |-> <<>>, assert |-> <<>>]

\* one iteration of the loop in which a call statement always makes act the
\* current section
categorize_statement_reverting(state, stmt, index) ==
    CASE stmt = "Assert" ->
            [current_section |-> "assert",
             sections |-> [state.sections EXCEPT !.assert = Append(@, index)]]
      [] stmt = "Assign" ->
            [current_section |-> state.current_section,
             sections |-> IF state.current_section = "arrange"
                          THEN [state.sections EXCEPT !.arrange = Append(@, index)]
                          ELSE [state.sections EXCEPT !.act = Append(@, index)]]
      [] stmt = "ExprCall" ->
            [current_section |-> "act",
             sections |-> [state.sections EXCEPT !.act = Append(@, index)]]
      [] OTHER ->
            [current_section |-> state.current_section,
             sections |-> [state.sections EXCEPT
                              ![state.current_section] = Append(@, index)]]

\* _categorize_statements (the same in PTLG001 and in AAAPatternChecker): one
\* iteration of the loop over the statements
categorize_statement(state, stmt, index) ==
    CASE stmt = "Assert" ->
            [current_section |-> "assert",
             sections |-> [state.sections EXCEPT !.assert = Append(@, index)]]
      [] stmt = "Assign" ->
            [current_section |-> state.current_section,
             sections |-> IF state.current_section = "arrange"
                          THEN [state.sections EXCEPT !.arrange = Append(@, index)]
                          ELSE [state.sections EXCEPT !.act = Append(@, index)]]
      [] stmt = "ExprCall" ->
            [current_section |-> IF state.current_section \in {"arrange", "act"}
                                 THEN "act" ELSE state.current_section,
             sections |-> [state.sections EXCEPT !.act = Append(@, index)]]
      [] OTHER ->
            [current_section |-> state.current_section,
             sections |-> [state.sections EXCEPT
                              ![state.current_section] = Append(@, index)]]

\* _categorize_statements: the whole loop
RECURSIVE categorize_from(_, _, _)
categorize_from(state, statements, index) ==
    IF index > Len(statements) THEN state
    ELSE categorize_from(categorize_statement(state, statements[index], index),
                         statements, index + 1)

categorize_statements(statements) ==
    categorize_from([current_section |-> "arrange", sections |-> EmptySections],
                    statements, 1).sections

\* PTLG001._has_logical_aaa_flow
ptlg001_has_logical_aaa_flow(sections) ==
    LET has_arrange == Len(sections.arrange) > 0
        has_act == Len(sections.act) > 0
        has_assert == Len(sections.assert) > 0
    IN  has_arrange /\ has_act /\ has_assert

\* AAAPatternChecker._has_logical_aaa_flow
aaa_has_logical_aaa_flow(sections) ==
    LET has_act == Len(sections.act) > 0
        has_assert == Len(sections.assert) > 0
    IN  has_act /\ has_assert

FlowBodies == UNION {[1..n -> StatementKinds] : n \in 1..MaxFlowStatements}

InitLogicalFlow ==
    /\ command = "none"
    /\ config = EmptyConfig
    /\ fileConfig = NoFile
    /\ raised = FALSE
    /\ events = <<>>
    /\ analyzed = <<>>
    /\ pc = "categorize"
    /\ \E statements \in FlowBodies :
           /\ pending = statements
           /\ arg = [statements |-> statements, current_section |-> "arrange",
                     sections |-> EmptySections]
    /\ ret = Absent

\* one iteration of the loop of _categorize_statements
CategorizeStatement ==
    /\ pc = "categorize"
    /\ pending # <<>>
    /\ LET index == Len(arg.statements) - Len(pending) + 1
           step == categorize_statement(
                       [current_section |-> arg.current_section,
                        sections |-> arg.sections],
                       Head(pending), index)
       IN  arg' = [arg EXCEPT !.current_section = step.current_section,
                              !.sections = step.sections]
    /\ pending' = Tail(pending)
    /\ UNCHANGED <<pc, command, config, fileConfig, raised, events, analyzed, ret>>

\* the loop is over: _has_logical_aaa_flow of the rule and of the checker
HasLogicalAAAFlow ==
    /\ pc = "categorize"
    /\ pending = <<>>
    /\ pc' = "detected"
    /\ ret' = [rule |-> ptlg001_has_logical_aaa_flow(arg.sections),
               checker |-> aaa_has_logical_aaa_flow(arg.sections)]
    /\ UNCHANGED <<arg, command, config, fileConfig, raised, events, pending,
                   analyzed>>

NextLogicalFlow == CategorizeStatement \/ HasLogicalAAAFlow

SpecLogicalFlow == InitLogicalFlow /\ [][NextLogicalFlow]_vars

\* C25: PTLG001._has_logical_aaa_flow and
\* AAAPatternChecker._has_logical_aaa_flow give the same answer for every
\* statement list of a function body.
C25_DetectorsAgree ==
    pc = "detected" => ret.rule = ret.checker

PhaseRank(section) ==
    CASE section = "arrange" -> 1
      [] section = "act" -> 2
      [] OTHER -> 3

SectionsTotal(sections) ==
    Len(sections.arrange) + Len(sections.act) + Len(sections.assert)

\* C26: while the statements are walked in order the current phase only
\* moves forward (arrange, act, assert): once assert it stays assert, it
\* never returns from act to arrange, and every statement is appended to
\* exactly one of the three sections.
C26_PhaseOnlyMovesForward ==
    [][ /\ PhaseRank(arg'.current_section) >= PhaseRank(arg.current_section)
        /\ arg.current_section = "assert" => arg'.current_section = "assert"
        /\ pending' # pending =>
               /\ SectionsTotal(arg'.sections) = SectionsTotal(arg.sections) + 1
               /\ \E name \in {"arrange", "act", "assert"} :
                      /\ arg'.sections[name] =
                             Append(arg.sections[name],
                                    Len(arg.statements) - Len(pending) + 1)
                      /\ \A other \in {"arrange", "act", "assert"} \ {name} :
                             arg'.sections[other] = arg.sections[other]
      ]_vars

\* a walk that met a call and an assignment after its first assert and is
\* still in the assert phase
C26_Witness ==
    /\ pc = "categorize"
    /\ pending = <<>>
    /\ arg.current_section = "assert"
    /\ \E i \in 1..Len(arg.statements) : \E j \in 1..Len(arg.statements) :
       \E k \in 1..Len(arg.statements) :
           /\ i < j /\ i < k
           /\ arg.statements[i] = "Assert"
           /\ arg.statements[j] = "ExprCall"
           /\ arg.statements[k] = "Assign"

----------------------------------------------------------------------------
(* AAAPatternChecker.check_function over the three detectors *)

InitAAAChecker ==
    /\ command = "none"
    /\ config = EmptyConfig
    /\ fileConfig = NoFile
    /\ raised = FALSE
    /\ events = <<>>
    /\ pending = <<>>
    /\ analyzed = <<>>
    /\ pc = "check_function"
    /\ \E comments \in {"AAA", "GWT", "none"} : \E structural \in BOOLEAN :
       \E body \in FlowBodies :
           arg = [comments |-> comments, structural |-> structural,
                  body |-> body]
    /\ ret = Absent

\* check_function of one test function: the logical detector runs on the
\* statements of its body
AAACheckFunction ==
    /\ pc = "check_function"
    /\ pc' = "checked"
    /\ LET test_function ==
               Fn("test_a", "empty", "empty", arg.comments, arg.structural,
                  aaa_has_logical_aaa_flow(categorize_statements(arg.body)))
       IN  ret' = aaa_check_function(test_function, [path |-> "test_file.py"])
    /\ UNCHANGED <<arg, command, config, fileConfig, raised, events, pending,
                   analyzed>>

NextAAAChecker == AAACheckFunction

SpecAAAChecker == InitAAAChecker /\ [][NextAAAChecker]_vars

\* the body has a statement in the act section and an assert
BodyHasActAndAssert(body) ==
    \E i \in 1..Len(body) :
        /\ body[i] = "Assert"
        /\ \/ \E j \in 1..Len(body) : body[j] = "ExprCall"
           \/ \E j \in 1..Len(body) : j > i /\ body[j] = "Assign"
           \/ \E j \in 1..Len(body) : \E k \in 1..Len(body) :
                  j < k /\ body[j] = "ExprCall" /\ body[k] \in {"Assign", "Pass"}

NoDetectorMatched ==
    /\ arg.comments = "none"
    /\ ~arg.structural
    /\ ~BodyHasActAndAssert(arg.body)

\* C23: check_function emits the PTST002 warning exactly when none of the
\* comment, structural and logical detectors matched; every function gets
\* at least one pattern result, and PTST002 never comes with a detection
\* result.
C23_WarningIffNothingDetected ==
    pc = "checked" =>
        LET results == ret.results
            warnings == {i \in 1..Len(results) : results[i].rule_id = PTST002}
        IN  /\ ~ret.raises
            /\ Len(results) >= 1
            /\ (warnings # {}) <=> NoDetectorMatched
            /\ warnings # {} => Len(results) = 1
            /\ \A i \in warnings : results[i].severity = "warning"
            /\ \A i \in 1..Len(results) \ warnings : results[i].severity = "info"

\* a function with statements but no comment, no structure and no logical
\* flow gets the warning alone
C23_Witness ==
    /\ pc = "checked"
    /\ NoDetectorMatched
    /\ Len(arg.body) >= 2
    /\ Len(ret.results) = 1
    /\ ret.results[1].rule_id = PTST002

----------------------------------------------------------------------------
(* PTCM003: the AAA or GWT pattern in comments (composite rule) *)

\* PTCM002 (gwt_comment_pattern): the markers given / when / then, scored as
\* PTCM001 scores arrange / act / assert
gwt_patterns ==
    <<<<"#", "s*", "given">>, <<"#", "s*", "when">>, <<"#", "s*", "then">>>>

gwt_combined_patterns ==
    <<<<"#", "s*", "when", "s*", "sep", "s*", "then">>,
      <<"#", "s*", "when", "s+", "and", "s+", "then">>,
      <<"#", "s*", "given", "s*", "sep", "s*", "when", "s*", "sep", "s*",
        "then">>,
      <<"#", "s*", "given", "s+", "and", "s+", "when", "s+", "and", "s+",
        "then">>>>

total_gwt_score(comments) ==
    check_patterns_in_comments(comments, gwt_patterns)
        + check_combined_patterns_in_comments(comments, gwt_combined_patterns) * 2

GWTDetected == "GWT pattern detected in comments"
GWTNotDetected == "GWT pattern not detected in comments"
AAAAndGWTDetected == "AAA and GWT pattern detected in comments"
NeitherDetected == "Neither AAA nor GWT pattern detected in comments"

\* PTCM002.check
PTCM002_check(lines, cfg) ==
    IF total_gwt_score(find_comments(lines)) >= 2
    THEN create_success_result(TRUE, cfg, PTCM002, GWTDetected)
    ELSE create_failure_result(TRUE, cfg, PTCM002, GWTNotDetected)

\* the words of message.lower() for the messages of the three rules
message_lower(message) ==
    CASE message = AAADetected ->
            <<"aaa", "pattern", "detected", "in", "comments">>
      [] message = AAANotDetected ->
            <<"aaa", "pattern", "not", "detected", "in", "comments">>
      [] message = GWTDetected ->
            <<"gwt", "pattern", "detected", "in", "comments">>
      [] message = GWTNotDetected ->
            <<"gwt", "pattern", "not", "detected", "in", "comments">>
      [] message = AAAAndGWTDetected ->
            <<"aaa", "and", "gwt", "pattern", "detected", "in", "comments">>
      [] OTHER ->
            <<"neither", "aaa", "nor", "gwt", "pattern", "detected", "in",
              "comments">>

\* PTCM003._is_success_result
is_success_result(result) ==
    /\ result.severity = "info"
    /\ \E i \in 1..Len(message_lower(result.message)) :
           message_lower(result.message)[i] = "detected"

\* PTCM003.check
PTCM003_check(lines, cfg) ==
    LET aaa_result == PTCM001_check(lines, cfg)
        aaa_found == is_success_result(aaa_result)
        gwt_result == PTCM002_check(lines, cfg)
        gwt_found == is_success_result(gwt_result)
    IN  IF aaa_found \/ gwt_found
        THEN create_success_result(TRUE, cfg, PTCM003,
                 IF aaa_found /\ gwt_found THEN AAAAndGWTDetected
                 ELSE IF aaa_found THEN AAADetected ELSE GWTDetected)
        ELSE create_failure_result(TRUE, cfg, PTCM003, NeitherDetected)

\* the lines a test function with AAA or GWT comments is written from
CompositeLinePool ==
    {<<"x">>,
     CommentArrange, CommentAct, CommentActAndAssert,
     <<"#", " ", "given">>, <<"#", " ", "when">>,
     <<"#", " ", "when", " ", "&", " ", "then">>}

CompositeFunctionLines ==
    UNION {[1..n -> CompositeLinePool] : n \in 0..MaxFunctionLines}

\* the severity sections of a configuration file
CompositeSeverities ==
    UNION {[D -> {"info", "warning"}] : D \in SUBSET {PTCM001, PTCM002, PTCM003}}

InitComposite ==
    /\ command = "none"
    /\ fileConfig = NoFile
    /\ raised = FALSE
    /\ events = <<>>
    /\ pending = <<>>
    /\ analyzed = <<>>
    /\ pc = "call"
    /\ \E severity \in CompositeSeverities :
           config = [EmptyConfig EXCEPT !.severity = severity]
    /\ arg \in CompositeFunctionLines
    /\ ret = Absent

\* PTCM003.check on the function
CheckPTCM003 ==
    /\ pc = "call"
    /\ pc' = "ptcm003_checked"
    /\ ret' = PTCM003_check(arg, config)
    /\ UNCHANGED <<arg, command, config, fileConfig, raised, events, pending,
                   analyzed>>

NextComposite == CheckPTCM003

SpecComposite == InitComposite /\ [][NextComposite]_vars

\* C24: whatever severities are configured, PTCM003 returns a success (info)
\* result when the AAA or the GWT comment score reaches 2, and its failure
\* result (severity of PTCM003 from the configuration) otherwise.
C24_SuccessIffScoreReached ==
    pc = "ptcm003_checked" =>
        LET reached == \/ total_aaa_score(find_comments(arg)) >= 2
                       \/ total_gwt_score(find_comments(arg)) >= 2
        IN  IF reached
            THEN ret.severity = "info" /\ ret.message # NeitherDetected
            ELSE /\ ret.message = NeitherDetected
                 /\ ret.severity = get_severity_from_config(TRUE, config, PTCM003)

----------------------------------------------------------------------------
(* PatternAnalyzer._find_comment_position *)

\* A line is a sequence of characters: the two quotes, '#', the backslash,
\* and "x" for any other character.
SingleQuote == "'"
DoubleQuote == "dq"
Hash == "#"
Backslash == "bs"

LineChars == {SingleQuote, DoubleQuote, Hash, Backslash, "x"}

\* the loop without its escape handling: a backslash is an ordinary character
RECURSIVE find_comment_position_without_escapes(_, _, _, _)
find_comment_position_without_escapes(line, i, in_single_quote, in_double_quote) ==
    IF ~(i < Len(line)) THEN -1
    ELSE LET char == line[i + 1]
         IN  IF char = SingleQuote /\ ~in_double_quote
             THEN find_comment_position_without_escapes(
                      line, i + 1, ~in_single_quote, in_double_quote)
             ELSE IF char = DoubleQuote /\ ~in_single_quote
             THEN find_comment_position_without_escapes(
                      line, i + 1, in_single_quote, ~in_double_quote)
             ELSE IF char = Hash /\ ~in_single_quote /\ ~in_double_quote
             THEN i
             ELSE find_comment_position_without_escapes(
                      line, i + 1, in_single_quote, in_double_quote)

\* the while loop of _find_comment_position from index i (0-based; line[i]
\* of the source is line[i + 1] here)
RECURSIVE find_comment_position_from(_, _, _, _)
find_comment_position_from(line, i, in_single_quote, in_double_quote) ==
    IF ~(i < Len(line)) THEN -1
    ELSE LET char == line[i + 1]
         IN  IF char = Backslash /\ i + 1 < Len(line)
             THEN find_comment_position_from(line, i + 2, in_single_quote,
                                             in_double_quote)
             ELSE IF char = SingleQuote /\ ~in_double_quote
             THEN find_comment_position_from(line, i + 1, ~in_single_quote,
                                             in_double_quote)
             ELSE IF char = DoubleQuote /\ ~in_single_quote
             THEN find_comment_position_from(line, i + 1, in_single_quote,
                                             ~in_double_quote)
             ELSE IF char = Hash /\ ~in_single_quote /\ ~in_double_quote
             THEN i
             ELSE find_comment_position_from(line, i + 1, in_single_quote,
                                             in_double_quote)

\* PatternAnalyzer._find_comment_position
find_comment_position(line) ==
    find_comment_position_from(line, 0, FALSE, FALSE)

\* PatternAnalyzer._extract_comments on one line: the stripped text after
\* the comment start, "none" when the line gives no comment
extract_comment(line) ==
    LET comment_pos == find_comment_position(line)
    IN  IF comment_pos # -1 /\ comment_pos + 2 <= Len(line)
        THEN SubSeq(line, comment_pos + 2, Len(line))
        ELSE <<>>

Lines == UNION {[1..n -> LineChars] : n \in 0..MaxLineLen}

InitCommentPosition ==
    /\ command = "none"
    /\ config = EmptyConfig
    /\ fileConfig = NoFile
    /\ raised = FALSE
    /\ events = <<>>
    /\ pending = <<>>
    /\ analyzed = <<>>
    /\ pc = "call"
    /\ arg \in Lines
    /\ ret = Absent

\* _find_comment_position on the line, and the comment _extract_comments
\* takes from it
FindCommentPosition ==
    /\ pc = "call"
    /\ pc' = "found"
    /\ ret' = [comment_pos |-> find_comment_position(arg),
               comment_text |-> extract_comment(arg)]
    /\ UNCHANGED <<arg, command, config, fileConfig, raised, events, pending,
                   analyzed>>

NextCommentPosition == FindCommentPosition

SpecCommentPosition == InitCommentPosition /\ [][NextCommentPosition]_vars

\* the character at position k (1-based) follows an escaping backslash
RECURSIVE Escaped(_, _)
Escaped(line, k) ==
    k > 1 /\ line[k - 1] = Backslash /\ ~Escaped(line, k - 1)

\* the quote that is open just before position k: "none", "single", "double";
\* an escaped character never changes it
RECURSIVE OpenQuote(_, _)
OpenQuote(line, k) ==
    IF k = 1 THEN "none"
    ELSE LET before == OpenQuote(line, k - 1)
             char == line[k - 1]
         IN  IF Escaped(line, k - 1) THEN before
             ELSE IF char = SingleQuote /\ before # "double"
             THEN IF before = "single" THEN "none" ELSE "single"
             ELSE IF char = DoubleQuote /\ before # "single"
             THEN IF before = "double" THEN "none" ELSE "double"
             ELSE before

HashesOutsideStrings(line) ==
    {k \in 1..Len(line) : line[k] = Hash /\ OpenQuote(line, k) = "none"}

Least(S) == CHOOSE k \in S : \A other \in S : k <= other

\* C27: _find_comment_position returns the index of the first '#' that lies
\* outside single- and double-quoted strings, a backslash-escaped character
\* never changing the quote state, and -1 when the line has no '#' or every
\* '#' is inside a string.
C27_FirstHashOutsideStrings ==
    pc = "found" =>
        IF HashesOutsideStrings(arg) = {}
        THEN ret.comment_pos = -1
        ELSE ret.comment_pos = Least(HashesOutsideStrings(arg)) - 1

\* C27 (amended): _find_comment_position returns the index of the first '#'
\* that neither follows an escaping backslash nor lies inside a single- or
\* double-quoted string, and -1 when there is none: the character after a
\* backslash is skipped whole, so that it neither changes the quote state nor
\* starts a comment.
C27_FirstUnescapedHashOutsideStrings ==
    pc = "found" =>
        LET S == {k \in HashesOutsideStrings(arg) : ~Escaped(arg, k)}
        IN  IF S = {} THEN ret.comment_pos = -1
            ELSE ret.comment_pos = Least(S) - 1
\* a line whose first '#' outside strings follows a backslash and is passed
\* over, and which has a later '#' that is found
C27_Witness ==
    /\ pc = "found"
    /\ ret.comment_pos >= 0
    /\ \E k \in HashesOutsideStrings(arg) :
           Escaped(arg, k) /\ k - 1 < ret.comment_pos

----------------------------------------------------------------------------
(* ConfigManager: _config and _default_config as objects that share values *)

\* dict.copy() is shallow: after it a key of _config holds the very object
\* the same key of _default_config holds.  Shared stands for that value; any
\* other value of _config is an object of its own.
Shared == [kind |-> "shared"]

\* the built-in defaults of __init__: select (a list), severity (an empty
\* dict) and rules (a dict of per-rule dicts); rule "a" has the option "a"
BuiltInDefaults ==
    [key \in {"select", "severity", "rules"} |->
        CASE key = "select" -> LeafValue(1)
          [] key = "severity" -> DictValue(<<>>)
          [] OTHER -> DictValue([rule \in {"a"} |->
                                    DictValue([option \in {"a"} |-> LeafValue(1)])])]

\* self._default_config.copy()
dict_copy(default_config) == [key \in DOMAIN default_config |-> Shared]

\* the value a key of _config holds
config_value(manager, key) ==
    IF manager._config[key] = Shared
    THEN manager._default_config[key]
    ELSE manager._config[key]

\* the dict load_config returns (self._config), read key by key
config_dict(manager) ==
    [key \in DOMAIN manager._config |-> config_value(manager, key)]

\* _merge_config: deep_merge(self._config, new_config); a dict that is merged
\* into is changed in place, whoever else holds it
manager_merge_config(manager, new_config) ==
    LET merged_in_place(key) ==
            /\ key \in DOMAIN new_config
            /\ key \in DOMAIN manager._config
            /\ is_dict(config_value(manager, key))
            /\ is_dict(new_config[key])
        merged(key) ==
            DictValue(deep_merge(config_value(manager, key).items,
                                 new_config[key].items))
    IN  [_config |->
            [key \in DOMAIN manager._config \cup DOMAIN new_config |->
                IF key \notin DOMAIN new_config THEN manager._config[key]
                ELSE IF merged_in_place(key)
                THEN IF manager._config[key] = Shared THEN Shared
                     ELSE merged(key)
                ELSE new_config[key]],
         _default_config |->
            [key \in DOMAIN manager._default_config |->
                IF merged_in_place(key) /\ manager._config[key] = Shared
                THEN merged(key)
                ELSE manager._default_config[key]]]

\* load_config: found is FALSE when no source exists (or none can be read);
\* an empty loaded_config is not merged
manager_load_config(manager, found, loaded_config) ==
    LET start == [manager EXCEPT !._config = dict_copy(manager._default_config)]
    IN  IF found /\ DOMAIN loaded_config # {}
        THEN manager_merge_config(start, loaded_config)
        ELSE start

\* set_config
manager_set_config(manager, key, value) ==
    [manager EXCEPT !._config =
        [k \in DOMAIN manager._config \cup {key} |->
            IF k = key THEN value ELSE manager._config[k]]]

\* apply_overrides
manager_apply_overrides(manager, overrides) ==
    [manager EXCEPT !._config =
        [k \in DOMAIN manager._config \cup DOMAIN overrides |->
            IF k \in DOMAIN overrides THEN overrides[k] ELSE manager._config[k]]]

\* values of configuration files and of set_config / apply_overrides
ManagerValues ==
    [select |-> {LeafValue(2)},
     severity |-> {DictValue([rule \in {"a"} |-> LeafValue(2)]), LeafValue(2)},
     rules |-> {DictValue([rule \in {"a"} |->
                    DictValue([option \in {"a"} |-> LeafValue(2)])]),
                DictValue([rule \in {"b"} |->
                    DictValue([option \in {"a"} |-> LeafValue(1)])])}]

\* dicts over some of the top-level keys
ManagerDicts ==
    UNION {{d \in [D -> UNION {ManagerValues[k] : k \in D}] :
               \A k \in D : d[k] \in ManagerValues[k]} :
           D \in SUBSET {"select", "severity", "rules"}}

InitManager ==
    /\ command = "none"
    /\ config = [_config |-> <<>>, _default_config |-> BuiltInDefaults]
    /\ fileConfig = NoFile
    /\ raised = FALSE
    /\ events = <<>>
    /\ pending = <<>>
    /\ analyzed = <<>>
    /\ pc = "idle"
    /\ arg = Absent
    /\ ret = Absent

\* load_config, with or without a configuration file to be found
ManagerLoadConfig ==
    /\ \E found \in BOOLEAN : \E loaded_config \in ManagerDicts :
           /\ found \/ loaded_config = <<>>
           /\ config' = manager_load_config(config, found, loaded_config)
           /\ command' = IF found THEN "load_config" ELSE "load_config_no_file"
    /\ pc' = "loaded"
    /\ ret' = config_dict(config')
    /\ UNCHANGED <<arg, fileConfig, raised, events, pending, analyzed>>

\* set_config(key, value)
ManagerSetConfig ==
    /\ \E key \in {"select", "severity", "rules"} :
       \E value \in ManagerValues[key] :
           config' = manager_set_config(config, key, value)
    /\ command' = "set_config"
    /\ pc' = "set"
    /\ UNCHANGED <<arg, ret, fileConfig, raised, events, pending, analyzed>>

\* apply_overrides(overrides)
ManagerApplyOverrides ==
    /\ \E overrides \in ManagerDicts :
           config' = manager_apply_overrides(config, overrides)
    /\ command' = "apply_overrides"
    /\ pc' = "set"
    /\ UNCHANGED <<arg, ret, fileConfig, raised, events, pending, analyzed>>

NextManager == ManagerLoadConfig \/ ManagerSetConfig \/ ManagerApplyOverrides

SpecManager == InitManager /\ [][NextManager]_vars

\* C29: load_config leaves the built-in defaults unchanged: after any
\* sequence of load_config, set_config and apply_overrides calls, a
\* load_config that finds no configuration file returns exactly the built-in
\* defaults, with no value of an earlier file surviving in them.
C29_NoFileLoadReturnsDefaults ==
    command = "load_config_no_file" => ret = BuiltInDefaults

----------------------------------------------------------------------------
(* get_conflicting_rules of the rules against CONFLICTING_RULE_GROUPS *)

\* rule.get_conflicting_rules(): the overrides of too_few_assertions (PTAS001),
\* too_many_assertions (PTAS002), no_assertions (PTAS004),
\* aaa_comment_pattern (PTCM001), aaa_or_gwt_pattern (PTCM003) and of the
\* edge-case rules (empty), and the default of BaseRule (empty)
get_conflicting_rules(rule) ==
    CASE rule = PTAS001 -> {PTAS004, PTAS005}
      [] rule = PTAS002 -> {PTAS004}
      [] rule = PTAS004 -> {PTAS001, PTAS002, PTAS005}
      [] rule = PTCM001 -> {PTCM003}
      [] rule = PTCM003 -> {PTCM001, PTCM002}
      [] OTHER -> {}

\* the rules whose classes declare (or inherit) get_conflicting_rules
DeclaringRules ==
    {PTAS001, PTAS002, PTAS004, PTAS005, PTCM001, PTCM003, PTLG001, PTNM001,
     PTST002, PTEC001, PTEC002, PTEC003, PTEC004, PTEC005}

InitConflicts ==
    /\ Idle
    /\ pc = "call"
    /\ arg \in [a : DeclaringRules, b : DeclaringRules]
    /\ ret = Absent

\* get_conflicting_rules() of the two rules
GetConflictingRules ==
    /\ pc = "call"
    /\ pc' = "declared"
    /\ ret' = [a |-> get_conflicting_rules(arg.a),
               b |-> get_conflicting_rules(arg.b)]
    /\ UNCHANGED <<arg>>
    /\ IdleUnchanged

NextConflicts == GetConflictingRules

SpecConflicts == InitConflicts /\ [][NextConflicts]_vars

\* two different rules are together in some group of CONFLICTING_RULE_GROUPS
InSameGroup(a, b) ==
    /\ a # b
    /\ \E g \in 1..Len(CONFLICTING_RULE_GROUPS) :
           a \in CONFLICTING_RULE_GROUPS[g] /\ b \in CONFLICTING_RULE_GROUPS[g]

\* C30: rule b is in rule a's get_conflicting_rules() exactly when a and b
\* are together in some group of CONFLICTING_RULE_GROUPS, and the declared
\* relation is symmetric.
C30_DeclaredConflictsMatchGroups ==
    pc = "declared" =>
        /\ arg.b \in ret.a <=> InSameGroup(arg.a, arg.b)
        /\ arg.b \in ret.a <=> arg.a \in ret.b

====
